---- MODULE Spec2Model ----
(***************************************************************************)
(* A model of pi-diff's rendering core: the inline and the side-by-side    *)
(* diff renderers (line buffers, separators, scroll state, ANSI-aware      *)
(* truncation and padding) and the DiffViewController that owns one of     *)
(* each.                                                                   *)
(*                                                                         *)
(* A JavaScript string is a sequence of one-character tokens.  The three   *)
(* characters that TLA+ strings cannot hold are named tokens: ESC is       *)
(* \x1b, MIDDOT is U+00B7 and VBAR is U+2502.  An optional number          *)
(* (number | undefined) is a sequence of length 0 or 1.                    *)
(***************************************************************************)
EXTENDS Integers, Sequences, FiniteSets, Bags, TLC

Min(a, b) == IF a <= b THEN a ELSE b

Max(a, b) == IF a >= b THEN a ELSE b

ESC == "ESC"

MIDDOT == "MIDDOT"

VBAR == "VBAR"

SPACE == " "

\* '\x1b[0m'
RESET == <<ESC, "[", "0", "m">>

\* '\x1b[2m'
DIM == <<ESC, "[", "2", "m">>

\* '\x1b[32m'
GREEN == <<ESC, "[", "3", "2", "m">>

\* '\x1b[31m'
RED == <<ESC, "[", "3", "1", "m">>

(***************************************************************************)
(* String primitives of the JavaScript runtime, as the renderers use them. *)
(***************************************************************************)
DigitChar(d) == <<"0", "1", "2", "3", "4", "5", "6", "7", "8", "9">>[d + 1]

RECURSIVE toString(_)
\* Number.prototype.toString for a non-negative integer.
toString(n) ==
  IF n < 10 THEN <<DigitChar(n)>>
  ELSE toString(n \div 10) \o <<DigitChar(n % 10)>>

\* ' '.repeat(k); the callers never pass a negative k.
repeatSpace(k) == [i \in 1..k |-> SPACE]

\* String.prototype.padStart(targetLength, ' ')
padStart(s, targetLength) == repeatSpace(targetLength - Len(s)) \o s

\* String.prototype.endsWith
endsWith(s, suffix) ==
  /\ Len(s) >= Len(suffix)
  /\ SubSeq(s, Len(s) - Len(suffix) + 1, Len(s)) = suffix

\* String.prototype.includes
includes(s, sub) ==
  \E i \in 1..(Len(s) - Len(sub) + 1) : SubSeq(s, i, i + Len(sub) - 1) = sub

\* Array.prototype.slice(start, end): a negative index counts from the end,
\* both are clamped into 0..length.  Indices here are the 0-based ones of JS.
sliceIndex(len, k) == IF k < 0 THEN Max(len + k, 0) ELSE Min(k, len)

slice(arr, start, end) ==
  SubSeq(arr, sliceIndex(Len(arr), start) + 1, sliceIndex(Len(arr), end))

(***************************************************************************)
(* DiffLine: type, content and the optional line numbers.  A field that is *)
(* undefined in the source is absent from the record.                      *)
(***************************************************************************)
oldLineNumber(hunk) ==
  IF "oldLineNumber" \in DOMAIN hunk THEN <<hunk.oldLineNumber>> ELSE <<>>

newLineNumber(hunk) ==
  IF "newLineNumber" \in DOMAIN hunk THEN <<hunk.newLineNumber>> ELSE <<>>

\* a ?? b on optional numbers
Coalesce(a, b) == IF a # <<>> THEN a ELSE b

\* a ?? 0
OrZero(a) == IF a # <<>> THEN a[1] ELSE 0

(***************************************************************************)
(* The injected highlight function.  "none" is no function at all          *)
(* (highlightFn undefined); "identity" returns the code; "bold" wraps it   *)
(* in a style escape and a reset, as a syntax highlighter does.            *)
(***************************************************************************)
BOLD == <<ESC, "[", "1", "m">>

HighlightFns == {"none", "identity", "bold"}

\* A highlight function that throws on every call.
ThrowingFn == "throws"

\* What an operation reports when an exception left it.
Thrown == <<"threw">>

Highlight(fn, code, filePath) ==
  IF fn = "bold" THEN BOLD \o code \o RESET ELSE code

(***************************************************************************)
(* InlineDiffView                                                          *)
(***************************************************************************)
RECURSIVE InlineTruncateLoop(_, _, _, _, _, _, _)
InlineTruncateLoop(line, width, i, visibleLength, result, inEscape, escapeSequence) ==
  IF i > Len(line) THEN result
  ELSE LET char == line[i] IN
    IF char = ESC
    THEN InlineTruncateLoop(line, width, i + 1, visibleLength, result, TRUE, <<char>>)
    ELSE IF inEscape
    THEN IF char = "m"
         THEN InlineTruncateLoop(line, width, i + 1, visibleLength,
                                 result \o escapeSequence \o <<char>>, FALSE, <<>>)
         ELSE InlineTruncateLoop(line, width, i + 1, visibleLength, result,
                                 TRUE, escapeSequence \o <<char>>)
    ELSE IF visibleLength >= width
    THEN result
    ELSE InlineTruncateLoop(line, width, i + 1, visibleLength + 1,
                            result \o <<char>>, FALSE, <<>>)

InlineTruncateToWidth(line, width) ==
  LET result == InlineTruncateLoop(line, width, 1, 0, <<>>, FALSE, <<>>)
  IN IF includes(result, <<ESC, "[">>) /\ ~endsWith(result, RESET)
     THEN result \o RESET
     ELSE result

InlineCreateSeparatorLine ==
  [content |-> DIM \o <<MIDDOT, MIDDOT, MIDDOT>> \o RESET,
   rawContent |-> <<MIDDOT, MIDDOT, MIDDOT>>]

RECURSIVE InlineMaxLoop(_, _, _)
InlineMaxLoop(hunks, i, max) ==
  IF i > Len(hunks) THEN max
  ELSE InlineMaxLoop(hunks, i + 1,
         Max(max, OrZero(Coalesce(newLineNumber(hunks[i]), oldLineNumber(hunks[i])))))

\* A maximum over the new line numbers only.
InlineGetMaxNewLineNumberOnly(diff) ==
  LET numbers == {OrZero(newLineNumber(diff.hunks[i])) : i \in 1..Len(diff.hunks)}
  IN IF numbers = {} THEN 0 ELSE CHOOSE n \in numbers : \A m \in numbers : m <= n

\* A maximum that takes a line's old number before its new one.
InlineGetMaxLineNumberOldFirst(diff) ==
  LET numbers == {OrZero(Coalesce(oldLineNumber(diff.hunks[i]), newLineNumber(diff.hunks[i]))) :
                    i \in 1..Len(diff.hunks)}
  IN IF numbers = {} THEN 0 ELSE CHOOSE n \in numbers : \A m \in numbers : m <= n

InlineGetMaxLineNumber(diff) == InlineMaxLoop(diff.hunks, 1, 0)

\* A line with the marker in front of the line number.
InlineRenderHunkMarkerFirst(hunk, lineNumberWidth, fn, filePath) ==
  LET lineNumber == OrZero(Coalesce(newLineNumber(hunk), oldLineNumber(hunk)))
      lineNumStr == padStart(toString(lineNumber), lineNumberWidth)
      prefix == CASE hunk.type = "added" -> "+"
                  [] hunk.type = "removed" -> "-"
                  [] hunk.type = "context" -> SPACE
  IN [content |-> DIM \o <<prefix, SPACE>> \o lineNumStr \o <<SPACE>> \o hunk.content \o RESET,
      rawContent |-> <<prefix, SPACE>> \o lineNumStr \o <<SPACE>> \o hunk.content]

InlineRenderHunk(hunk, lineNumberWidth, fn, filePath) ==
  LET lineNumber == OrZero(Coalesce(newLineNumber(hunk), oldLineNumber(hunk)))
      lineNumStr == padStart(toString(lineNumber), lineNumberWidth)
      prefix == CASE hunk.type = "added" -> "+"
                  [] hunk.type = "removed" -> "-"
                  [] hunk.type = "context" -> SPACE
      color == CASE hunk.type = "added" -> GREEN
                 [] hunk.type = "removed" -> RED
                 [] hunk.type = "context" -> DIM
      content == IF hunk.type = "context" /\ fn # "none"
                 THEN Highlight(fn, hunk.content, filePath)
                 ELSE hunk.content
  IN [content |-> color \o lineNumStr \o <<SPACE, prefix, SPACE>> \o content \o RESET,
      rawContent |-> lineNumStr \o <<SPACE, prefix, SPACE>> \o hunk.content]

\* A separator test that asks for the very next number.
InlineNeedsSeparatorUnlessNext(previousLineNumber, currentLineNumber) ==
  /\ previousLineNumber # <<>>
  /\ currentLineNumber # <<>>
  /\ currentLineNumber[1] # previousLineNumber[1] + 1

\* The separator test of buildRenderedLines for one DiffLine.
InlineNeedsSeparator(previousLineNumber, currentLineNumber) ==
  /\ previousLineNumber # <<>>
  /\ currentLineNumber # <<>>
  /\ currentLineNumber[1] > previousLineNumber[1] + 1

RECURSIVE InlineBuildLoop(_, _, _, _, _, _)
InlineBuildLoop(diff, fn, lineNumberWidth, i, previousLineNumber, renderedLines) ==
  IF i > Len(diff.hunks) THEN renderedLines
  ELSE LET hunk == diff.hunks[i]
           currentLineNumber == Coalesce(newLineNumber(hunk), oldLineNumber(hunk))
           sep == IF InlineNeedsSeparator(previousLineNumber, currentLineNumber)
                  THEN <<InlineCreateSeparatorLine>> ELSE <<>>
       IN IF hunk.type = "context" /\ fn = ThrowingFn
          THEN renderedLines \o sep
          ELSE InlineBuildLoop(diff, fn, lineNumberWidth, i + 1,
                 IF currentLineNumber # <<>> THEN currentLineNumber ELSE previousLineNumber,
                 renderedLines \o sep
                   \o <<InlineRenderHunk(hunk, lineNumberWidth, fn, diff.filePath)>>)

\* buildRenderedLines: the buffer it leaves.  The highlight call of renderHunk
\* is not guarded, so an exception of the highlight function ends the loop with
\* the lines pushed so far.
InlineBuildRenderedLines(diff, fn) ==
  IF Len(diff.hunks) = 0 THEN <<>>
  ELSE InlineBuildLoop(diff, fn, Len(toString(InlineGetMaxLineNumber(diff))),
                       1, <<>>, <<>>)

\* buildRenderedLines: whether an exception leaves it.
InlineBuildThrows(diff, fn) ==
  fn = ThrowingFn /\ \E i \in 1..Len(diff.hunks) : diff.hunks[i].type = "context"

\* One call of the highlight function: who called, and the two arguments.
HighlightCall(view, code, filePath) ==
  [view |-> view, code |-> code, filePath |-> filePath]

\* An inline renderer that highlights every line.
InlineHunkCallsAllTypes(hunk, fn, filePath) ==
  IF fn # "none"
  THEN <<HighlightCall("inline", hunk.content, filePath)>>
  ELSE <<>>

\* renderHunk: the calls of the highlight function it makes.
InlineHunkCalls(hunk, fn, filePath) ==
  IF hunk.type = "context" /\ fn # "none"
  THEN <<HighlightCall("inline", hunk.content, filePath)>>
  ELSE <<>>

RECURSIVE InlineCallsLoop(_, _, _)
InlineCallsLoop(diff, fn, i) ==
  IF i > Len(diff.hunks) THEN <<>>
  ELSE LET calls == InlineHunkCalls(diff.hunks[i], fn, diff.filePath)
       IN IF calls # <<>> /\ fn = ThrowingFn THEN calls
          ELSE calls \o InlineCallsLoop(diff, fn, i + 1)

\* buildRenderedLines: the calls of the highlight function, in order.
InlineHighlightCalls(diff, fn) == InlineCallsLoop(diff, fn, 1)

\* scrollUp(lines): the new _scrollOffset
InlineScrollUp(scrollOffset, lines) == Max(0, scrollOffset - lines)

\* scrollDown(lines): the new _scrollOffset
InlineScrollDown(scrollOffset, renderedLines, lines) ==
  Min(Max(0, Len(renderedLines)), scrollOffset + lines)

InlineScrollToTop == 0

InlineScrollToBottom(renderedLines) == Max(0, Len(renderedLines))

\* A render that does not clamp the offset.
InlineRenderOffsetNoClamp(scrollOffset, renderedLines, visibleHeight) == scrollOffset

\* A render that moves the window one line on before it clamps.
InlineRenderOffsetAdvancing(scrollOffset, renderedLines, visibleHeight) ==
  Min(scrollOffset + 1, Max(0, Len(renderedLines) - visibleHeight))

\* render: the offset it stores
InlineRenderOffset(scrollOffset, renderedLines, visibleHeight) ==
  Min(scrollOffset, Max(0, Len(renderedLines) - visibleHeight))

\* render: the rows it returns
InlineRenderRows(scrollOffset, renderedLines, width, visibleHeight) ==
  LET offset == InlineRenderOffset(scrollOffset, renderedLines, visibleHeight)
      endIndex == Min(offset + visibleHeight, Len(renderedLines))
      visibleLines == slice(renderedLines, offset, endIndex)
  IN [k \in 1..Len(visibleLines) |->
        InlineTruncateToWidth(visibleLines[k].content, width)]

(***************************************************************************)
(* SideBySideDiffView                                                      *)
(***************************************************************************)
RECURSIVE SbsTruncateLoop(_, _, _, _, _, _, _)
SbsTruncateLoop(line, width, i, visibleLength, result, inEscape, escapeSequence) ==
  IF i > Len(line) THEN result
  ELSE LET char == line[i] IN
    IF char = ESC
    THEN SbsTruncateLoop(line, width, i + 1, visibleLength, result, TRUE, <<char>>)
    ELSE IF inEscape
    THEN IF char = "m"
         THEN SbsTruncateLoop(line, width, i + 1, visibleLength,
                              result \o escapeSequence \o <<char>>, FALSE, <<>>)
         ELSE SbsTruncateLoop(line, width, i + 1, visibleLength, result,
                              TRUE, escapeSequence \o <<char>>)
    ELSE IF visibleLength >= width
    THEN result
    ELSE SbsTruncateLoop(line, width, i + 1, visibleLength + 1,
                         result \o <<char>>, FALSE, <<>>)

SbsTruncateToWidth(line, width) ==
  LET result == SbsTruncateLoop(line, width, 1, 0, <<>>, FALSE, <<>>)
  IN IF includes(result, <<ESC, "[">>) /\ ~endsWith(result, RESET)
     THEN result \o RESET
     ELSE result

RECURSIVE SbsVisibleLength(_, _, _, _)
\* The counting loop of padToWidth.
SbsVisibleLength(content, i, visibleLength, inEscape) ==
  IF i > Len(content) THEN visibleLength
  ELSE LET char == content[i] IN
    IF char = ESC THEN SbsVisibleLength(content, i + 1, visibleLength, TRUE)
    ELSE IF inEscape
    THEN SbsVisibleLength(content, i + 1, visibleLength, char # "m")
    ELSE SbsVisibleLength(content, i + 1, visibleLength + 1, FALSE)

\* A padding that is always appended at the end.
SbsPadToWidthAppend(content, rawContent, width) ==
  LET padding == width - SbsVisibleLength(content, 1, 0, FALSE)
  IN IF padding <= 0 THEN content ELSE content \o repeatSpace(padding)

SbsPadToWidth(content, rawContent, width) ==
  LET padding == width - SbsVisibleLength(content, 1, 0, FALSE)
  IN IF padding <= 0 THEN content
     ELSE IF endsWith(content, RESET)
     THEN slice(content, 0, -4) \o repeatSpace(padding) \o RESET
     ELSE content \o repeatSpace(padding)

SbsCreateSeparatorLine ==
  LET content == DIM \o <<MIDDOT, MIDDOT, MIDDOT>> \o RESET
      rawContent == <<MIDDOT, MIDDOT, MIDDOT>>
  IN [leftContent |-> content, leftRawContent |-> rawContent,
      rightContent |-> content, rightRawContent |-> rawContent]

RECURSIVE SbsMaxOldLoop(_, _, _)
SbsMaxOldLoop(hunks, i, max) ==
  IF i > Len(hunks) THEN max
  ELSE SbsMaxOldLoop(hunks, i + 1,
         IF oldLineNumber(hunks[i]) # <<>>
         THEN Max(max, oldLineNumber(hunks[i])[1]) ELSE max)

SbsGetMaxOldLineNumber(diff) == SbsMaxOldLoop(diff.hunks, 1, 0)

RECURSIVE SbsMaxNewLoop(_, _, _)
SbsMaxNewLoop(hunks, i, max) ==
  IF i > Len(hunks) THEN max
  ELSE SbsMaxNewLoop(hunks, i + 1,
         IF newLineNumber(hunks[i]) # <<>>
         THEN Max(max, newLineNumber(hunks[i])[1]) ELSE max)

SbsGetMaxNewLineNumber(diff) == SbsMaxNewLoop(diff.hunks, 1, 0)

SbsRenderContextLine(hunk, oldLineNumberWidth, newLineNumberWidth, fn, filePath) ==
  LET oldLineNumStr == padStart(toString(OrZero(oldLineNumber(hunk))), oldLineNumberWidth)
      newLineNumStr == padStart(toString(OrZero(newLineNumber(hunk))), newLineNumberWidth)
      leftContentText == IF fn # "none" THEN Highlight(fn, hunk.content, filePath)
                         ELSE hunk.content
      rightContentText == IF fn # "none" THEN Highlight(fn, hunk.content, filePath)
                          ELSE hunk.content
  IN [leftContent |-> DIM \o oldLineNumStr \o <<SPACE>> \o leftContentText \o RESET,
      leftRawContent |-> oldLineNumStr \o <<SPACE>> \o hunk.content,
      rightContent |-> DIM \o newLineNumStr \o <<SPACE>> \o rightContentText \o RESET,
      rightRawContent |-> newLineNumStr \o <<SPACE>> \o hunk.content]

\* A removed line rendered into both cells.
SbsRenderRemovedLineBothCells(hunk, oldLineNumberWidth, newLineNumberWidth) ==
  LET oldLineNumStr == padStart(toString(OrZero(oldLineNumber(hunk))), oldLineNumberWidth)
  IN [leftContent |-> RED \o oldLineNumStr \o <<SPACE>> \o hunk.content \o RESET,
      leftRawContent |-> oldLineNumStr \o <<SPACE>> \o hunk.content,
      rightContent |-> RED \o oldLineNumStr \o <<SPACE>> \o hunk.content \o RESET,
      rightRawContent |-> oldLineNumStr \o <<SPACE>> \o hunk.content]

SbsRenderRemovedLine(hunk, oldLineNumberWidth, newLineNumberWidth) ==
  LET oldLineNumStr == padStart(toString(OrZero(oldLineNumber(hunk))), oldLineNumberWidth)
      newLineNumStr == padStart(<<>>, newLineNumberWidth)
  IN [leftContent |-> RED \o oldLineNumStr \o <<SPACE>> \o hunk.content \o RESET,
      leftRawContent |-> oldLineNumStr \o <<SPACE>> \o hunk.content,
      rightContent |-> newLineNumStr \o <<SPACE>>,
      rightRawContent |-> newLineNumStr \o <<SPACE>>]

SbsRenderAddedLine(hunk, oldLineNumberWidth, newLineNumberWidth) ==
  LET newLineNumStr == padStart(toString(OrZero(newLineNumber(hunk))), newLineNumberWidth)
      oldLineNumStr == padStart(<<>>, oldLineNumberWidth)
  IN [leftContent |-> oldLineNumStr \o <<SPACE>>,
      leftRawContent |-> oldLineNumStr \o <<SPACE>>,
      rightContent |-> GREEN \o newLineNumStr \o <<SPACE>> \o hunk.content \o RESET,
      rightRawContent |-> newLineNumStr \o <<SPACE>> \o hunk.content]

SbsRenderHunk(hunk, oldLineNumberWidth, newLineNumberWidth, fn, filePath) ==
  CASE hunk.type = "context" ->
         SbsRenderContextLine(hunk, oldLineNumberWidth, newLineNumberWidth, fn, filePath)
    [] hunk.type = "removed" ->
         SbsRenderRemovedLine(hunk, oldLineNumberWidth, newLineNumberWidth)
    [] hunk.type = "added" ->
         SbsRenderAddedLine(hunk, oldLineNumberWidth, newLineNumberWidth)

\* A separator test that looks at the old numbers only.
SbsNeedsSeparatorOldOnly(previousOld, currentOld, previousNew, currentNew) ==
  /\ previousOld # <<>>
  /\ currentOld # <<>>
  /\ currentOld[1] > previousOld[1] + 1

\* The separator test of buildRenderedLines for one DiffLine: the old pair
\* decides when both old numbers are there, otherwise the new pair.
SbsNeedsSeparator(previousOld, currentOld, previousNew, currentNew) ==
  IF previousOld # <<>> /\ currentOld # <<>>
  THEN currentOld[1] > previousOld[1] + 1
  ELSE IF previousNew # <<>> /\ currentNew # <<>>
  THEN currentNew[1] > previousNew[1] + 1
  ELSE FALSE

RECURSIVE SbsBuildLoop(_, _, _, _, _, _, _, _)
SbsBuildLoop(diff, fn, oldW, newW, i, previousOld, previousNew, renderedLines) ==
  IF i > Len(diff.hunks) THEN renderedLines
  ELSE LET hunk == diff.hunks[i]
           currentOld == oldLineNumber(hunk)
           currentNew == newLineNumber(hunk)
           sep == IF SbsNeedsSeparator(previousOld, currentOld, previousNew, currentNew)
                  THEN <<SbsCreateSeparatorLine>> ELSE <<>>
       IN IF hunk.type = "context" /\ fn = ThrowingFn
          THEN renderedLines \o sep
          ELSE SbsBuildLoop(diff, fn, oldW, newW, i + 1,
                 IF currentOld # <<>> THEN currentOld ELSE previousOld,
                 IF currentNew # <<>> THEN currentNew ELSE previousNew,
                 renderedLines \o sep
                   \o <<SbsRenderHunk(hunk, oldW, newW, fn, diff.filePath)>>)

SbsBuildRenderedLines(diff, fn) ==
  IF Len(diff.hunks) = 0 THEN <<>>
  ELSE SbsBuildLoop(diff, fn,
                    Len(toString(SbsGetMaxOldLineNumber(diff))),
                    Len(toString(SbsGetMaxNewLineNumber(diff))),
                    1, <<>>, <<>>, <<>>)

SbsBuildThrows(diff, fn) ==
  fn = ThrowingFn /\ \E i \in 1..Len(diff.hunks) : diff.hunks[i].type = "context"

\* renderContextLine: the calls of the highlight function it makes, the left
\* cell's first; the second is not reached when the first throws.
SbsHunkCalls(hunk, fn, filePath) ==
  IF hunk.type = "context" /\ fn # "none"
  THEN IF fn = ThrowingFn
       THEN <<HighlightCall("side-by-side", hunk.content, filePath)>>
       ELSE <<HighlightCall("side-by-side", hunk.content, filePath),
              HighlightCall("side-by-side", hunk.content, filePath)>>
  ELSE <<>>

RECURSIVE SbsCallsLoop(_, _, _)
SbsCallsLoop(diff, fn, i) ==
  IF i > Len(diff.hunks) THEN <<>>
  ELSE LET calls == SbsHunkCalls(diff.hunks[i], fn, diff.filePath)
       IN IF calls # <<>> /\ fn = ThrowingFn THEN calls
          ELSE calls \o SbsCallsLoop(diff, fn, i + 1)

SbsHighlightCalls(diff, fn) == SbsCallsLoop(diff, fn, 1)

SbsScrollUp(scrollOffset, lines) == Max(0, scrollOffset - lines)

SbsScrollDown(scrollOffset, renderedLines, lines) ==
  Min(Max(0, Len(renderedLines)), scrollOffset + lines)

SbsScrollToTop == 0

SbsScrollToBottom(renderedLines) == Max(0, Len(renderedLines))

SbsRenderOffset(scrollOffset, renderedLines, visibleHeight) ==
  Min(scrollOffset, Max(0, Len(renderedLines) - visibleHeight))

\* Math.floor((width - 1) / 2); \div rounds towards minus infinity, as floor does.
SbsPanelWidth(width) == (width - 1) \div 2

\* One row of render: both cells truncated, padded and joined.
SbsRenderRow(line, panelWidth) ==
  LET left == SbsTruncateToWidth(line.leftContent, panelWidth)
      right == SbsTruncateToWidth(line.rightContent, panelWidth)
  IN SbsPadToWidth(left, line.leftRawContent, panelWidth)
       \o <<VBAR>> \o SbsPadToWidth(right, line.rightRawContent, panelWidth)

SbsRenderRows(scrollOffset, renderedLines, width, visibleHeight) ==
  LET offset == SbsRenderOffset(scrollOffset, renderedLines, visibleHeight)
      endIndex == Min(offset + visibleHeight, Len(renderedLines))
      visibleLines == slice(renderedLines, offset, endIndex)
  IN [k \in 1..Len(visibleLines) |-> SbsRenderRow(visibleLines[k], SbsPanelWidth(width))]

(***************************************************************************)
(* The diffs the renderers are given.  computeDiff is not part of the      *)
(* sources at hand; its output for an edit script (one entry per line of   *)
(* the LCS alignment: "keep", "add" or "rem") is taken from its            *)
(* description: a kept line carries its old and its new number, an added   *)
(* line its new number, a removed line its old number, and a kept line is  *)
(* emitted only within contextLines lines of a change.                     *)
(***************************************************************************)
MaxScriptLen == 5

MaxContextLines == 1

RECURSIVE SeqsUpTo(_, _)
\* All sequences over S of length 0..n.
SeqsUpTo(S, n) ==
  IF n = 0 THEN {<<>>}
  ELSE LET shorter == SeqsUpTo(S, n - 1)
       IN shorter \cup {Append(t, x) : t \in {u \in shorter : Len(u) = n - 1}, x \in S}

EditOps == {"keep", "add", "rem"}

\* The old (new) number of the script's i-th line.
ScriptOldNumber(script, i) ==
  Cardinality({j \in 1..i : script[j] \in {"keep", "rem"}})

ScriptNewNumber(script, i) ==
  Cardinality({j \in 1..i : script[j] \in {"keep", "add"}})

\* A window that emits only the lines within reach of another line's change.
ScriptShownNearOtherChange(script, contextLines, i) ==
  \E j \in 1..Len(script) :
    /\ j # i
    /\ script[j] # "keep"
    /\ j - i <= contextLines
    /\ i - j <= contextLines

\* Whether the i-th line is emitted: a change, or context within reach of one.
ScriptShown(script, contextLines, i) ==
  \/ script[i] # "keep"
  \/ \E j \in 1..Len(script) :
       /\ script[j] # "keep"
       /\ j - i <= contextLines
       /\ i - j <= contextLines

ScriptDiffLine(script, i) ==
  CASE script[i] = "keep" ->
         [type |-> "context", content |-> <<"k">>,
          oldLineNumber |-> ScriptOldNumber(script, i),
          newLineNumber |-> ScriptNewNumber(script, i)]
    [] script[i] = "add" ->
         [type |-> "added", content |-> <<"a">>,
          newLineNumber |-> ScriptNewNumber(script, i)]
    [] script[i] = "rem" ->
         [type |-> "removed", content |-> <<"r">>,
          oldLineNumber |-> ScriptOldNumber(script, i)]

RECURSIVE ScriptShownIndices(_, _, _)
\* The script positions that are emitted, in order, from position i on.
ScriptShownIndices(script, contextLines, i) ==
  IF i > Len(script) THEN <<>>
  ELSE (IF ScriptShown(script, contextLines, i) THEN <<i>> ELSE <<>>)
         \o ScriptShownIndices(script, contextLines, i + 1)

DiffFromScript(script, contextLines) ==
  LET shown == ScriptShownIndices(script, contextLines, 1)
  IN [filePath |-> "test.ts",
      hunks |-> [k \in 1..Len(shown) |-> ScriptDiffLine(script, shown[k])]]

\* The same diff with every line's content replaced.
WithContent(d, content) ==
  [d EXCEPT !.hunks = [k \in 1..Len(d.hunks) |-> [d.hunks[k] EXCEPT !.content = content]]]

\* The same diff with the position of each line appended to its content, so
\* that no two lines have the same text.
WithNumberedContent(d) ==
  [d EXCEPT !.hunks = [k \in 1..Len(d.hunks) |->
     [d.hunks[k] EXCEPT !.content = d.hunks[k].content \o toString(k)]]]

\* An origin is what a diff was computed from: the edit script, the context
\* size and, where the text of the lines matters, the content of its lines.
OriginDiff(o) ==
  IF "content" \in DOMAIN o
  THEN WithContent(DiffFromScript(o.script, o.contextLines), o.content)
  ELSE IF "numbered" \in DOMAIN o
  THEN WithNumberedContent(DiffFromScript(o.script, o.contextLines))
  ELSE DiffFromScript(o.script, o.contextLines)

AllOrigins ==
  [script : SeqsUpTo(EditOps, MaxScriptLen), contextLines : 0..MaxContextLines]

(***************************************************************************)
(* DiffViewController and its two renderers: the state.                    *)
(***************************************************************************)
VARIABLES
  origin,        \* the edit script and context size the current diff came from
  diff,          \* the FileDiff last given to the constructor or to setDiff
  highlightFn,   \* the highlight function given to the constructor
  inlineLines,   \* inlineView.renderedLines
  inlineOffset,  \* inlineView._scrollOffset
  sbsLines,      \* sideBySideView.renderedLines
  sbsOffset,     \* sideBySideView._scrollOffset
  viewMode,      \* _viewMode
  lastOp,        \* the last call: its name, arguments and return value
  prevOp,        \* the call before it: its name and arguments
  highlightCalls \* the calls of the highlight function the last call made

(***************************************************************************)
(* The extension around the controller: the state.                         *)
(***************************************************************************)
VARIABLES
  files,              \* the file system: the text of each path
  preCapture,         \* the preCapture map of the extension
  snapshots,          \* DiffState: the FileSnapshots, in first-tracked order
  modalFileList,      \* DiffReviewModal._fileList
  modalSelectedIndex, \* DiffReviewModal._selectedIndex
  modalOpen,          \* the modalOpen flag of the extension
  currentDoneCallback, \* whether currentDoneCallback is set (not null)
  viewController,     \* the diff the open modal's view controller was built
                      \* with, if it has one
  clip,               \* the copyToClipboard call that runs or that its caller
                      \* awaited, if there is one
  ui,                 \* ctx.hasUI, and what ctx.ui.setStatus and setWidget were given last
  inFlight,           \* the tools whose tool_call was handled and whose tool_result is due
  toolCalls,          \* the number of tool_call events so far
  history             \* per path: what the first tool_call and the last tool_result
                      \* saw, how many results there were, whether it was dismissed
                      \* and what the last tool_result had reported by then

ctlVars == <<origin, diff, highlightFn, inlineLines, inlineOffset, sbsLines,
             sbsOffset, viewMode, lastOp, prevOp, highlightCalls>>

extVars == <<files, preCapture, snapshots, modalFileList, modalSelectedIndex,
             modalOpen, currentDoneCallback, viewController, clip, ui, inFlight,
             toolCalls,
             history>>

vars == <<origin, diff, highlightFn, inlineLines, inlineOffset, sbsLines,
          sbsOffset, viewMode, lastOp, prevOp, highlightCalls,
          files, preCapture, snapshots, modalFileList, modalSelectedIndex,
          modalOpen, currentDoneCallback, viewController, clip, ui, inFlight,
          toolCalls,
          history>>

\* A file text is a sequence of lines; the empty text, which is also what a
\* failed read gives, is the empty sequence.
Texts == {<<>>, <<"x">>, <<"y">>}

\* A path is a string: a sequence of tokens in which the token "/" is the
\* separator and every other token stands for a character or a run of
\* characters without a separator ("a.ts", "..", a quote).  "/w/a.ts" is
\* <<"/", "w", "/", "a.ts">>; an absolute path starts with "/".
Cwd == <<"/", "w">>

isAbsolute(filePath) == Len(filePath) > 0 /\ filePath[1] = "/"

\* path.resolve(cwd, filePath) for an absolute cwd and a relative filePath,
\* token by token over cwd + "/" + filePath: at a separator and at the end the
\* segment read so far is added to the resolved path, where "." and an empty
\* segment (a repeated or trailing separator) add nothing and ".." removes
\* the last segment, if there is one below the root.
RECURSIVE pathResolve(_, _, _)
pathResolve(resolved, segment, rest) ==
  LET lastSeparator ==
        CHOOSE i \in 1..Len(resolved) :
          resolved[i] = "/" /\ \A j \in (i + 1)..Len(resolved) : resolved[j] # "/"
      added ==
        IF segment \in {<<>>, <<".">>} THEN resolved
        ELSE IF segment = <<"..">>
        THEN IF lastSeparator = 1 THEN <<"/">>
             ELSE SubSeq(resolved, 1, lastSeparator - 1)
        ELSE IF resolved = <<"/">> THEN resolved \o segment
        ELSE resolved \o <<"/">> \o segment
  IN IF rest = <<>> THEN added
     ELSE IF Head(rest) = "/" THEN pathResolve(added, <<>>, Tail(rest))
     ELSE pathResolve(resolved, Append(segment, Head(rest)), Tail(rest))

resolvePath(filePath, cwd) ==
  IF isAbsolute(filePath) THEN filePath
  ELSE pathResolve(<<"/">>, <<>>, cwd \o <<"/">> \o filePath)

\* The paths the tools are given: one file by a plain relative path, by a
\* relative path with ".", ".." and a repeated separator in it and by its
\* absolute path, and a second file.
InputPaths ==
  {<<"a.ts">>,
   <<".", "/", "/", "b", "/", "..", "/", "a.ts">>,
   <<"/", "w", "/", "a.ts">>,
   <<"/", "w", "/", "b.ts">>}

ResolvedPaths == {resolvePath(p, Cwd) : p \in InputPaths}

\* No value yet, in the history.
None == <<"none">>

\* The copyToClipboard calls that were started are kept in a bag, one record
\* per call; here no call was started.
ClipIdle == EmptyBag

\* The extension right after it was loaded: new DiffState(), new
\* DiffReviewModal(state), an empty preCapture map, on one of the given file
\* systems, in a session with or without a UI.
ExtInit(fileSystems, hasUIs) ==
  /\ files \in fileSystems
  /\ preCapture = <<>>
  /\ snapshots = <<>>
  /\ modalFileList = <<>>
  /\ modalSelectedIndex = 0
  /\ modalOpen = FALSE
  /\ currentDoneCallback = FALSE
  /\ viewController = <<>>
  /\ clip = ClipIdle
  /\ ui \in [hasUI : hasUIs, status : {<<>>}, widget : {<<>>},
             overlays : {0}, notice : {<<>>}]
  /\ inFlight = EmptyBag
  /\ toolCalls = 0
  /\ history = [firstCall |-> [p \in ResolvedPaths |-> None],
                lastResult |-> [p \in ResolvedPaths |-> None],
                results |-> [p \in ResolvedPaths |-> 0],
                dismissed |-> [p \in ResolvedPaths |-> FALSE],
                rebaseline |-> [p \in ResolvedPaths |-> None]]

\* The extension with no event yet, on an empty file system.
ExtensionIdle == ExtInit({[p \in ResolvedPaths |-> <<>>]}, {TRUE})

\* Bounds of the inputs the operations are called with.
MaxScroll == 1

MaxHeight == 2

MaxWidth == 8

\* The scroll offsets are kept within -OffsetCap..OffsetCap.
OffsetCap == 3

\* terminalWidth >= 120
MinSideBySideWidth == 120

\* A line count "far larger" than any buffer, from any offset within the cap.
FarScroll == OffsetCap + 2 * MaxScriptLen + 1

ScrollArgs == (-MaxScroll..MaxScroll) \cup {FarScroll}

Heights == 0..MaxHeight

\* The widths the controller is called with: a narrow one and the two at the
\* side-by-side threshold.
CtlWidths == {MaxWidth, MinSideBySideWidth - 1, MinSideBySideWidth}

ViewModes == {"inline", "side-by-side"}

\* The diffs the controller is driven with.
CtlOrigins ==
  {[script |-> <<>>, contextLines |-> 0],
   [script |-> <<"add">>, contextLines |-> 1],
   [script |-> <<"keep", "rem", "add">>, contextLines |-> 1],
   [script |-> <<"add", "add", "rem", "keep">>, contextLines |-> 1],
   [script |-> <<"rem", "keep", "keep", "keep", "add">>, contextLines |-> 1]}

Op(name, arg, ret) == [name |-> name, arg |-> arg, ret |-> ret]

\* getActiveView(), as the fields it selects
ActiveOffset == IF viewMode = "inline" THEN inlineOffset ELSE sbsOffset

ActiveLines == IF viewMode = "inline" THEN inlineLines ELSE sbsLines

InactiveOffset == IF viewMode = "inline" THEN sbsOffset ELSE inlineOffset

InCap(offset) == -OffsetCap <= offset /\ offset <= OffsetCap

\* new DiffViewController(diff, highlightFn).  When the construction of the
\* inline renderer throws, the side-by-side renderer is never constructed and
\* the caller gets no controller.
NewController(origins, fns) ==
  /\ origin \in origins
  /\ diff = OriginDiff(origin)
  /\ highlightFn \in fns
  /\ inlineLines = InlineBuildRenderedLines(diff, highlightFn)
  /\ inlineOffset = 0
  /\ sbsLines = IF InlineBuildThrows(diff, highlightFn) THEN <<>>
                ELSE SbsBuildRenderedLines(diff, highlightFn)
  /\ sbsOffset = 0
  /\ viewMode = "inline"
  /\ lastOp = Op("new", <<>>,
                 IF InlineBuildThrows(diff, highlightFn) THEN Thrown ELSE <<>>)
  /\ prevOp = [name |-> "none", arg |-> <<>>]
  /\ highlightCalls =
       IF InlineBuildThrows(diff, highlightFn)
       THEN InlineHighlightCalls(diff, highlightFn)
       ELSE InlineHighlightCalls(diff, highlightFn)
              \o SbsHighlightCalls(diff, highlightFn)

\* A controller on its own: the extension does not take part.
InitFrom(origins, fns) == NewController(origins, fns) /\ ExtensionIdle

\* The constructor returned a controller.
Constructed == ~(lastOp.name = "new" /\ lastOp.ret = Thrown)

\* The highlight functions the controller is driven with.
CtlHighlightFns == {"none", "bold"}

Init == InitFrom(CtlOrigins, CtlHighlightFns)

\* A call on the controller: it reaches nothing of the extension.
Returned(name, arg, ret) ==
  /\ lastOp' = Op(name, arg, ret)
  /\ prevOp' = [name |-> lastOp.name, arg |-> lastOp.arg]
  /\ UNCHANGED extVars

\* A call of an operation that has no call of the highlight function in it.
Called(name, arg, ret) ==
  /\ Returned(name, arg, ret)
  /\ highlightCalls' = <<>>

\* InlineDiffView.setDiff
InlineSetDiff(d) ==
  /\ inlineOffset' = 0
  /\ inlineLines' = InlineBuildRenderedLines(d, highlightFn)

\* SideBySideDiffView.setDiff
SbsSetDiff(d) ==
  /\ sbsOffset' = 0
  /\ sbsLines' = SbsBuildRenderedLines(d, highlightFn)

\* A setDiff that reaches the active renderer only.
setDiffActiveOnly(o) ==
  /\ origin' = o
  /\ diff' = OriginDiff(o)
  /\ IF viewMode = "inline"
     THEN InlineSetDiff(OriginDiff(o)) /\ UNCHANGED <<sbsOffset, sbsLines>>
     ELSE SbsSetDiff(OriginDiff(o)) /\ UNCHANGED <<inlineOffset, inlineLines>>
  /\ Returned("setDiff", <<>>, <<>>)
  /\ highlightCalls' = InlineHighlightCalls(OriginDiff(o), highlightFn)
                         \o SbsHighlightCalls(OriginDiff(o), highlightFn)
  /\ UNCHANGED <<highlightFn, viewMode>>

\* DiffViewController.setDiff: the inline renderer first, then the
\* side-by-side renderer, which is not reached when the first call throws.
setDiff(o) ==
  /\ origin' = o
  /\ diff' = OriginDiff(o)
  /\ InlineSetDiff(OriginDiff(o))
  /\ IF InlineBuildThrows(OriginDiff(o), highlightFn)
     THEN /\ UNCHANGED <<sbsOffset, sbsLines>>
          /\ Returned("setDiff", <<>>, Thrown)
          /\ highlightCalls' = InlineHighlightCalls(OriginDiff(o), highlightFn)
     ELSE /\ SbsSetDiff(OriginDiff(o))
          /\ Returned("setDiff", <<>>, <<>>)
          /\ highlightCalls' = InlineHighlightCalls(OriginDiff(o), highlightFn)
                                 \o SbsHighlightCalls(OriginDiff(o), highlightFn)
  /\ UNCHANGED <<highlightFn, viewMode>>

\* A width test that is off by one.
canUseSideBySideStrict(terminalWidth) == terminalWidth > MinSideBySideWidth

canUseSideBySide(terminalWidth) == terminalWidth >= MinSideBySideWidth

\* A mode switch that forgets to reset the scroll positions.
resetScrollNone == UNCHANGED <<inlineOffset, sbsOffset>>

resetScroll ==
  /\ inlineOffset' = InlineScrollToTop
  /\ sbsOffset' = SbsScrollToTop

toggleViewMode(terminalWidth) ==
  /\ IF viewMode = "inline"
     THEN IF canUseSideBySide(terminalWidth)
          THEN /\ viewMode' = "side-by-side"
               /\ resetScroll
               /\ Called("toggleViewMode", <<terminalWidth>>, TRUE)
          ELSE /\ UNCHANGED <<viewMode, inlineOffset, sbsOffset>>
               /\ Called("toggleViewMode", <<terminalWidth>>, FALSE)
     ELSE /\ viewMode' = "inline"
          /\ resetScroll
          /\ Called("toggleViewMode", <<terminalWidth>>, TRUE)
  /\ UNCHANGED <<origin, diff, highlightFn, inlineLines, sbsLines>>

\* A setViewMode that resets the scroll positions on every call.
setViewModeAlwaysResets(mode) ==
  /\ viewMode' = mode
  /\ resetScroll
  /\ Called("setViewMode", <<mode>>, <<>>)
  /\ UNCHANGED <<origin, diff, highlightFn, inlineLines, sbsLines>>

setViewMode(mode) ==
  /\ IF viewMode # mode
     THEN viewMode' = mode /\ resetScroll
     ELSE UNCHANGED <<viewMode, inlineOffset, sbsOffset>>
  /\ Called("setViewMode", <<mode>>, <<>>)
  /\ UNCHANGED <<origin, diff, highlightFn, inlineLines, sbsLines>>

\* A delegation that reaches both renderers.
SetBothOffsets(inl, sbs) == inlineOffset' = inl /\ sbsOffset' = sbs

\* The active renderer's offset becomes inl (inline mode) or sbs (side-by-side).
SetActiveOffset(inl, sbs) ==
  IF viewMode = "inline"
  THEN inlineOffset' = inl /\ UNCHANGED sbsOffset
  ELSE sbsOffset' = sbs /\ UNCHANGED inlineOffset

scrollUp(lines) ==
  /\ InCap(Max(0, ActiveOffset - lines))
  /\ SetActiveOffset(InlineScrollUp(inlineOffset, lines), SbsScrollUp(sbsOffset, lines))
  /\ Called("scrollUp", <<lines>>, <<>>)
  /\ UNCHANGED <<origin, diff, highlightFn, inlineLines, sbsLines, viewMode>>

scrollDown(lines) ==
  /\ InCap(Min(Len(ActiveLines), ActiveOffset + lines))
  /\ SetActiveOffset(InlineScrollDown(inlineOffset, inlineLines, lines),
                     SbsScrollDown(sbsOffset, sbsLines, lines))
  /\ Called("scrollDown", <<lines>>, <<>>)
  /\ UNCHANGED <<origin, diff, highlightFn, inlineLines, sbsLines, viewMode>>

scrollToTop ==
  /\ SetActiveOffset(InlineScrollToTop, SbsScrollToTop)
  /\ Called("scrollToTop", <<>>, <<>>)
  /\ UNCHANGED <<origin, diff, highlightFn, inlineLines, sbsLines, viewMode>>

scrollToBottom ==
  /\ SetActiveOffset(InlineScrollToBottom(inlineLines), SbsScrollToBottom(sbsLines))
  /\ Called("scrollToBottom", <<>>, <<>>)
  /\ UNCHANGED <<origin, diff, highlightFn, inlineLines, sbsLines, viewMode>>

render(width, visibleHeight) ==
  /\ SetActiveOffset(InlineRenderOffset(inlineOffset, inlineLines, visibleHeight),
                     SbsRenderOffset(sbsOffset, sbsLines, visibleHeight))
  /\ Called("render", <<width, visibleHeight>>,
            IF viewMode = "inline"
            THEN InlineRenderRows(inlineOffset, inlineLines, width, visibleHeight)
            ELSE SbsRenderRows(sbsOffset, sbsLines, width, visibleHeight))
  /\ UNCHANGED <<origin, diff, highlightFn, inlineLines, sbsLines, viewMode>>

CtlSetDiff == \E o \in CtlOrigins : setDiff(o)

CtlToggleViewMode == \E w \in CtlWidths : toggleViewMode(w)

CtlSetViewMode == \E m \in ViewModes : setViewMode(m)

CtlScrollUp == \E n \in ScrollArgs : scrollUp(n)

CtlScrollDown == \E n \in ScrollArgs : scrollDown(n)

CtlScrollToTop == scrollToTop

CtlScrollToBottom == scrollToBottom

CtlRender == \E w \in CtlWidths, h \in Heights : render(w, h)

Next ==
  \/ CtlSetDiff
  \/ CtlToggleViewMode
  \/ CtlSetViewMode
  \/ CtlScrollUp
  \/ CtlScrollDown
  \/ CtlScrollToTop
  \/ CtlScrollToBottom
  \/ CtlRender

Spec == Init /\ [][Next]_vars

(***************************************************************************)
(* Properties of the controller and the scroll state (specification Spec). *)
(***************************************************************************)
Last(seq) == seq[Len(seq)]

ScrollOps == {"scrollUp", "scrollDown", "scrollToTop", "scrollToBottom"}

\* The call before the last one scrolled to the bottom, by scrollToBottom or by
\* a scrollDown far larger than the buffer.
PrevScrolledToBottom ==
  \/ prevOp.name = "scrollToBottom"
  \/ prevOp.name = "scrollDown" /\ prevOp.arg = <<FarScroll>>

\* The row that render(width, *) returns for a line of the active renderer.
ActiveRow(line, width) ==
  IF viewMode = "inline"
  THEN InlineTruncateToWidth(line.content, width)
  ELSE SbsRenderRow(line, SbsPanelWidth(width))

\* C1: after render(width, H) with H >= 0 the scroll offset of the rendered
\* view lies in [0, max(0, totalLines - H)], whatever calls came before.
C1_RenderClampsOffset ==
  lastOp.name = "render" =>
    /\ 0 <= ActiveOffset
    /\ ActiveOffset <= Max(0, Len(ActiveLines) - lastOp.arg[2])

\* C2: scrolling to the bottom (scrollToBottom, or scrollDown by far more than
\* the buffer holds) and then render(*, H) leaves the offset at max(0, N - H)
\* and returns min(H, N) rows, the last of which is the last rendered line.
C2_BottomWindow ==
  (lastOp.name = "render" /\ PrevScrolledToBottom) =>
    LET N == Len(ActiveLines)
        H == lastOp.arg[2]
        rows == lastOp.ret
    IN /\ ActiveOffset = Max(0, N - H)
       /\ Len(rows) = Min(H, N)
       /\ (N > 0 /\ H > 0) => Last(rows) = ActiveRow(Last(ActiveLines), lastOp.arg[1])

C2_Witness ==
  /\ lastOp.name = "render"
  /\ PrevScrolledToBottom
  /\ lastOp.arg[2] > 0
  /\ Len(ActiveLines) > lastOp.arg[2]
  /\ ActiveOffset > 0

\* C3: scrollUp(n) and scrollDown(n) leave the scroll offset inside
\* [0, totalLines] for every integer n, negative ones included; the offset of
\* either renderer is never negative.
C3_ScrollOffsetInRange ==
  /\ 0 <= inlineOffset /\ inlineOffset <= Len(inlineLines)
  /\ 0 <= sbsOffset /\ sbsOffset <= Len(sbsLines)

\* C4: a step that changes viewMode leaves the controller's scroll offset at 0.
C4_ModeSwitchResetsScroll ==
  [][viewMode' # viewMode => ActiveOffset' = 0]_vars

C4_Witness ==
  /\ lastOp.name = "toggleViewMode"
  /\ lastOp.ret = TRUE
  /\ viewMode = "inline"
  /\ prevOp.name = "scrollToBottom"
  /\ Len(sbsLines) > 0
  /\ inlineOffset = 0 /\ sbsOffset = 0

\* C5: a new controller is in inline mode; canUseSideBySide(w) is true iff
\* w >= 120; toggleViewMode(w) in inline mode switches iff w >= 120 and
\* returns whether it switched; in side-by-side mode it switches to inline and
\* returns true.
C5_ToggleViewMode ==
  /\ [](lastOp.name = "new" => viewMode = "inline")
  /\ [](\A w \in CtlWidths : canUseSideBySide(w) <=> w >= 120)
  /\ [][lastOp'.name = "toggleViewMode" =>
          LET w == lastOp'.arg[1] IN
          /\ viewMode = "inline" =>
               /\ viewMode' = "side-by-side" <=> w >= 120
               /\ lastOp'.ret <=> viewMode' # viewMode
          /\ viewMode = "side-by-side" =>
               /\ viewMode' = "inline"
               /\ lastOp'.ret = TRUE]_vars

C5_Witness ==
  /\ lastOp.name = "toggleViewMode"
  /\ lastOp.arg = <<120>>
  /\ lastOp.ret = TRUE
  /\ viewMode = "side-by-side"
  /\ prevOp.name = "toggleViewMode"
  /\ prevOp.arg = <<119>>

\* C6: both line buffers are always the ones built from the diff given last,
\* both offsets are 0 right after setDiff, and every row a render returns is a
\* row of the current diff.
C6_SetDiffRebuildsBoth ==
  /\ inlineLines = InlineBuildRenderedLines(diff, highlightFn)
  /\ sbsLines = SbsBuildRenderedLines(diff, highlightFn)
  /\ lastOp.name = "setDiff" => inlineOffset = 0 /\ sbsOffset = 0
  /\ lastOp.name = "render" =>
       LET fresh == IF viewMode = "inline"
                    THEN InlineBuildRenderedLines(diff, highlightFn)
                    ELSE SbsBuildRenderedLines(diff, highlightFn)
       IN \A k \in 1..Len(lastOp.ret) :
            \E j \in 1..Len(fresh) : lastOp.ret[k] = ActiveRow(fresh[j], lastOp.arg[1])

C6_Witness ==
  /\ lastOp.name = "setDiff"
  /\ viewMode = "side-by-side"
  /\ prevOp.name = "scrollToBottom"
  /\ Len(inlineLines) > 0
  /\ Len(inlineLines) # Len(sbsLines)

\* C7: the inactive renderer's offset is 0 in every state, and a scroll call
\* changes neither it nor the mode.
C7_InactiveUntouched ==
  /\ [](InactiveOffset = 0)
  /\ [][lastOp'.name \in ScrollOps =>
          /\ viewMode' = viewMode
          /\ InactiveOffset' = InactiveOffset]_vars

C7_Witness ==
  /\ lastOp.name = "scrollDown"
  /\ viewMode = "side-by-side"
  /\ sbsOffset > 0
  /\ inlineOffset = 0
  /\ Len(inlineLines) > 0

\* C16: a render(width, H) that directly follows a render with the same
\* arguments returns the same rows and leaves both scroll offsets as they were.
C16_RenderIdempotent ==
  [][(lastOp.name = "render" /\ lastOp'.name = "render" /\ lastOp'.arg = lastOp.arg) =>
       /\ lastOp'.ret = lastOp.ret
       /\ inlineOffset' = inlineOffset
       /\ sbsOffset' = sbsOffset]_vars

C16_Witness ==
  /\ lastOp.name = "render"
  /\ prevOp.name = "render"
  /\ prevOp.arg = lastOp.arg
  /\ lastOp.arg[2] > 0
  /\ Len(lastOp.ret) = lastOp.arg[2]
  /\ Len(ActiveLines) > lastOp.arg[2]
  /\ ActiveOffset > 0

(***************************************************************************)
(* Separators (specification SpecSeparators): the renderers are built for  *)
(* every diff of an edit script of up to MaxScriptLen lines, then toggled  *)
(* and rendered in full at the side-by-side width.                         *)
(***************************************************************************)
\* A height that shows every line of every buffer.
FullHeight == 2 * MaxScriptLen

InitSeparators == InitFrom(AllOrigins, {"none"})

SepSetDiff == \E o \in CtlOrigins : setDiff(o)

SepToggleViewMode == toggleViewMode(MinSideBySideWidth)

SepRender == render(MinSideBySideWidth, FullHeight)

NextSeparators ==
  \/ SepSetDiff
  \/ SepToggleViewMode
  \/ SepRender

SpecSeparators == InitSeparators /\ [][NextSeparators]_vars

Dots == <<MIDDOT, MIDDOT, MIDDOT>>

IsInlineSeparator(line) == line.rawContent = Dots

IsSbsSeparator(line) == line.leftRawContent = Dots /\ line.rightRawContent = Dots

RECURSIVE InlineSepFlags(_, _, _)
\* For each DiffLine row of an inline buffer, in order: whether a separator row
\* comes directly before it.
InlineSepFlags(lines, i, pending) ==
  IF i > Len(lines) THEN <<>>
  ELSE IF IsInlineSeparator(lines[i]) THEN InlineSepFlags(lines, i + 1, TRUE)
  ELSE <<pending>> \o InlineSepFlags(lines, i + 1, FALSE)

RECURSIVE SbsSepFlags(_, _, _)
SbsSepFlags(lines, i, pending) ==
  IF i > Len(lines) THEN <<>>
  ELSE IF IsSbsSeparator(lines[i]) THEN SbsSepFlags(lines, i + 1, TRUE)
  ELSE <<pending>> \o SbsSepFlags(lines, i + 1, FALSE)

CountTrue(flags) == Cardinality({k \in 1..Len(flags) : flags[k]})

\* Whether unchanged lines of the script were left out between the (k-1)-th
\* and the k-th DiffLine of the diff of origin o.
OmittedBefore(o, k) ==
  LET shown == ScriptShownIndices(o.script, o.contextLines, 1)
  IN k > 1 /\ shown[k] > shown[k - 1] + 1

\* The separators of a buffer with the given flags sit exactly at the omitted
\* runs of the current diff, one row each.
SeparatorsMarkOmissions(flags, lines) ==
  /\ Len(flags) = Len(diff.hunks)
  /\ Len(lines) = Len(flags) + CountTrue(flags)
  /\ \A k \in 1..Len(flags) : flags[k] <=> OmittedBefore(origin, k)

\* C8: in the inline buffer a separator stands between two consecutive
\* DiffLines if and only if unchanged lines were omitted between them.
C8_InlineSeparatorIffOmitted ==
  SeparatorsMarkOmissions(InlineSepFlags(inlineLines, 1, FALSE), inlineLines)

\* The number a field had in the last DiffLine before the k-th that carries it.
LastSeen(hunks, k, field) ==
  LET seen == {j \in 1..(k - 1) : field \in DOMAIN hunks[j]}
  IN IF seen = {} THEN <<>>
     ELSE <<hunks[CHOOSE j \in seen : \A i \in seen : i <= j][field]>>

\* The side-by-side rule as the claim words it.
SbsRuleAsStated(hunks, k) ==
  LET prevOld == LastSeen(hunks, k, "oldLineNumber")
      prevNew == LastSeen(hunks, k, "newLineNumber")
      curOld == oldLineNumber(hunks[k])
      curNew == newLineNumber(hunks[k])
  IN IF prevOld # <<>> /\ curOld # <<>> THEN curOld[1] # prevOld[1] + 1
     ELSE IF prevNew # <<>> /\ curNew # <<>> THEN curNew[1] # prevNew[1] + 1
     ELSE FALSE

SbsSeparatorsFollowRule ==
  LET flags == SbsSepFlags(sbsLines, 1, FALSE)
  IN /\ Len(flags) = Len(diff.hunks)
     /\ Len(sbsLines) = Len(flags) + CountTrue(flags)
     /\ \A k \in 1..Len(flags) : flags[k] <=> SbsRuleAsStated(diff.hunks, k)

\* A rendered side-by-side row whose two cells both show the separator glyphs.
RowShowsSeparatorInBothCells(row) ==
  \E v \in 1..Len(row) :
    /\ row[v] = VBAR
    /\ includes(SubSeq(row, 1, v - 1), Dots)
    /\ includes(SubSeq(row, v + 1, Len(row)), Dots)

SbsSeparatorInBothCells ==
  /\ \A i \in 1..Len(sbsLines) :
       includes(sbsLines[i].leftContent, Dots) <=> includes(sbsLines[i].rightContent, Dots)
  /\ (lastOp.name = "render" /\ viewMode = "side-by-side") =>
       /\ Len(lastOp.ret) = Len(sbsLines)
       /\ \A i \in 1..Len(sbsLines) :
            IsSbsSeparator(sbsLines[i]) => RowShowsSeparatorInBothCells(lastOp.ret[i])

\* Every omitted run of the diff of origin o lies between two context lines.
OmissionsBetweenContext(o) ==
  LET hunks == OriginDiff(o).hunks
  IN \A k \in 1..Len(hunks) :
       OmittedBefore(o, k) => hunks[k - 1].type = "context" /\ hunks[k].type = "context"

MaxContentLen == 2

ContentChars == {"a", "m", "[", ESC}

TruncOrigins ==
  [script : {<<"add">>, <<"rem">>, <<"keep", "add">>},
   contextLines : {1},
   content : SeqsUpTo(ContentChars, MaxContentLen)]

InitTruncate == InitFrom(TruncOrigins, HighlightFns)

TruncRender == \E w \in 0..MaxWidth : render(w, FullHeight)

TruncSetViewMode == \E m \in ViewModes : setViewMode(m)

NextTruncate ==
  \/ TruncRender
  \/ TruncSetViewMode

SpecTruncate == InitTruncate /\ [][NextTruncate]_vars

RECURSIVE FirstIndexFrom(_, _, _)
\* The first index >= i at which s holds c, or 0.
FirstIndexFrom(s, c, i) ==
  IF i > Len(s) THEN 0
  ELSE IF s[i] = c THEN i
  ELSE FirstIndexFrom(s, c, i + 1)

RECURSIVE VisibleCount(_, _)
\* The number of characters of s, from index i on, that are outside the
\* escape sequences ESC '[' ... 'm'.
VisibleCount(s, i) ==
  IF i > Len(s) THEN 0
  ELSE IF s[i] = ESC /\ i < Len(s) /\ s[i + 1] = "[" /\ FirstIndexFrom(s, "m", i + 2) # 0
  THEN VisibleCount(s, FirstIndexFrom(s, "m", i + 2) + 1)
  ELSE 1 + VisibleCount(s, i + 1)

\* C10: every row InlineDiffView.render(width, H) returns has at most width
\* visible characters, those outside ESC[...m sequences.
C10_InlineRowsFitWidth ==
  (lastOp.name = "render" /\ viewMode = "inline") =>
    \A k \in 1..Len(lastOp.ret) : VisibleCount(lastOp.ret[k], 1) <= lastOp.arg[1]

\* The part of a side-by-side row before (after) its column separator.
LeftCell(row) == SubSeq(row, 1, FirstIndexFrom(row, VBAR, 1) - 1)

RightCell(row) == SubSeq(row, FirstIndexFrom(row, VBAR, 1) + 1, Len(row))

SbsRendered == lastOp.name = "render" /\ viewMode = "side-by-side"

\* C11: every row SideBySideDiffView.render(width, H) returns, width >= 1, is
\* a left cell, one column separator and a right cell, each cell with exactly
\* floor((width - 1) / 2) visible characters, so the row has at most width
\* visible characters and the separator is at the same column in every row.
C11_SbsCellsHavePanelWidth ==
  (SbsRendered /\ lastOp.arg[1] >= 1) =>
    LET width == lastOp.arg[1]
        panelWidth == (width - 1) \div 2
    IN \A k \in 1..Len(lastOp.ret) :
         LET row == lastOp.ret[k] IN
         /\ Cardinality({i \in 1..Len(row) : row[i] = VBAR}) = 1
         /\ VisibleCount(LeftCell(row), 1) = panelWidth
         /\ VisibleCount(RightCell(row), 1) = panelWidth
         /\ VisibleCount(row, 1) <= width

OnlySpaces(s) == \A i \in 1..Len(s) : s[i] = SPACE

StartsWith(s, prefix) == Len(s) >= Len(prefix) /\ SubSeq(s, 1, Len(prefix)) = prefix

\* The DiffLine that the i-th line of the side-by-side buffer renders.
SbsHunkOfLine(i) ==
  diff.hunks[Cardinality({j \in 1..i : ~IsSbsSeparator(sbsLines[j])})]

\* What a styled cell of a context line holds after its colour, its line
\* number column and the space; raw is the cell's unstyled form.
SbsContextText(cell, raw, hunk) ==
  SubSeq(cell, Len(DIM) + (Len(raw) - Len(hunk.content)) + 1, Len(cell))

\* C12, in the line buffer: a removed DiffLine has its content, red, in the
\* left cell and only spaces in the right cell; an added DiffLine is the
\* mirror image in green; a context DiffLine has the same content in both.
SbsCellsByType ==
  \A i \in 1..Len(sbsLines) :
    ~IsSbsSeparator(sbsLines[i]) =>
      LET line == sbsLines[i]
          hunk == SbsHunkOfLine(i)
      IN /\ hunk.type = "removed" =>
              /\ StartsWith(line.leftContent, RED)
              /\ endsWith(line.leftContent, hunk.content \o RESET)
              /\ OnlySpaces(line.rightContent)
         /\ hunk.type = "added" =>
              /\ StartsWith(line.rightContent, GREEN)
              /\ endsWith(line.rightContent, hunk.content \o RESET)
              /\ OnlySpaces(line.leftContent)
         /\ hunk.type = "context" =>
              /\ SbsContextText(line.leftContent, line.leftRawContent, hunk)
                   = SbsContextText(line.rightContent, line.rightRawContent, hunk)
              /\ includes(SbsContextText(line.leftContent, line.leftRawContent, hunk),
                          hunk.content)
              /\ StartsWith(line.leftContent, DIM)
              /\ StartsWith(line.rightContent, DIM)

\* C12, in the rows of a full render: the blank cell of a removed or added
\* line is only spaces, and the other cell opens with its colour and closes
\* with the reset.
SbsRowsByType ==
  (SbsRendered /\ lastOp.arg[1] >= 1 /\ Len(lastOp.ret) = Len(sbsLines)) =>
    \A i \in 1..Len(sbsLines) :
      ~IsSbsSeparator(sbsLines[i]) =>
        LET row == lastOp.ret[i]
            hunk == SbsHunkOfLine(i)
        IN /\ hunk.type = "removed" =>
                /\ OnlySpaces(RightCell(row))
                /\ StartsWith(LeftCell(row), RED) /\ endsWith(LeftCell(row), RESET)
           /\ hunk.type = "added" =>
                /\ OnlySpaces(LeftCell(row))
                /\ StartsWith(RightCell(row), GREEN) /\ endsWith(RightCell(row), RESET)

\* C12: a removed DiffLine puts its content, styled red, in the left cell only
\* and the right cell holds only spaces with no escape sequence; an added
\* DiffLine is the mirror image in green; a context DiffLine puts the same
\* content in both cells.
C12_SbsCellsByType == SbsCellsByType /\ SbsRowsByType

C12_Witness ==
  /\ SbsRendered
  /\ lastOp.arg[1] = MaxWidth
  /\ Len(lastOp.ret) = 2
  /\ diff.hunks[1].type = "context"
  /\ diff.hunks[2].type = "added"
  /\ diff.hunks[1].content = <<"a", "m">>
  /\ highlightFn = "bold"
  /\ OnlySpaces(LeftCell(lastOp.ret[2]))

\* s holds a style escape: ESC '[' ... 'm'.
HasStyleEscape(s) ==
  \E i \in 1..(Len(s) - 1) :
    s[i] = ESC /\ s[i + 1] = "[" /\ FirstIndexFrom(s, "m", i + 2) # 0

\* cell is the truncated text with its padding, and a cell that holds a style
\* escape ends with the reset, all the padding in front of it.
SbsCellClosed(cell, styled, panelWidth) ==
  LET truncated == SbsTruncateToWidth(styled, panelWidth)
      padding == Len(cell) - Len(truncated)
  IN /\ padding >= 0
     /\ HasStyleEscape(cell) =>
          /\ endsWith(cell, RESET)
          /\ endsWith(truncated, RESET)
          /\ cell = SubSeq(truncated, 1, Len(truncated) - Len(RESET))
                      \o repeatSpace(padding) \o RESET
     /\ ~HasStyleEscape(cell) => cell = truncated \o repeatSpace(padding)

\* C13: every row InlineDiffView.render returns that holds a style escape ends
\* with the reset ESC[0m, at every width; every side-by-side cell that holds a
\* style escape ends with the reset, with all its padding before that reset.
C13_NoColourLeak ==
  /\ (lastOp.name = "render" /\ viewMode = "inline") =>
       \A k \in 1..Len(lastOp.ret) :
         HasStyleEscape(lastOp.ret[k]) => endsWith(lastOp.ret[k], RESET)
  /\ (SbsRendered /\ Len(lastOp.ret) = Len(sbsLines)) =>
       \A i \in 1..Len(sbsLines) :
         LET panelWidth == SbsPanelWidth(lastOp.arg[1]) IN
         /\ SbsCellClosed(LeftCell(lastOp.ret[i]), sbsLines[i].leftContent, panelWidth)
         /\ SbsCellClosed(RightCell(lastOp.ret[i]), sbsLines[i].rightContent, panelWidth)

\* A side-by-side render in which a styled cell was padded.
C13_Witness ==
  /\ SbsRendered
  /\ Len(lastOp.ret) = 1
  /\ diff.hunks[1].type = "removed"
  /\ LET cell == LeftCell(lastOp.ret[1])
     IN /\ HasStyleEscape(cell)
        /\ Len(cell) > Len(SbsTruncateToWidth(sbsLines[1].leftContent,
                                              SbsPanelWidth(lastOp.arg[1])))
        /\ endsWith(cell, <<SPACE>> \o RESET)

(***************************************************************************)
(* The highlight function (specification SpecHighlight): a controller is   *)
(* built with no highlight function, with one that returns, or with one    *)
(* that throws, and is then driven through all its operations.             *)
(***************************************************************************)
HlOrigins ==
  [script : {<<"add">>,
             <<"keep", "rem", "add">>,
             <<"keep", "add", "keep">>,
             <<"rem", "keep", "keep", "keep", "add">>},
   contextLines : {1},
   numbered : {TRUE}]

HlHighlightFns == HighlightFns \cup {ThrowingFn}

InitHighlight == InitFrom(HlOrigins, HlHighlightFns)

HlSetDiff == Constructed /\ \E o \in HlOrigins : setDiff(o)

HlToggleViewMode == Constructed /\ toggleViewMode(MinSideBySideWidth)

HlSetViewMode == Constructed /\ \E m \in ViewModes : setViewMode(m)

HlScrollUp == Constructed /\ scrollUp(MaxScroll)

HlScrollDown == Constructed /\ scrollDown(MaxScroll)

HlScrollToTop == Constructed /\ scrollToTop

HlScrollToBottom == Constructed /\ scrollToBottom

HlRender ==
  Constructed /\ \E w \in {MaxWidth, MinSideBySideWidth} : render(w, MaxHeight)

NextHighlight ==
  \/ HlSetDiff
  \/ HlToggleViewMode
  \/ HlSetViewMode
  \/ HlScrollUp
  \/ HlScrollDown
  \/ HlScrollToTop
  \/ HlScrollToBottom
  \/ HlRender

SpecHighlight == InitHighlight /\ [][NextHighlight]_vars

BuildOps == {"new", "setDiff"}

\* The context DiffLines of the current diff, in diff order.
ContextLines == SelectSeq(diff.hunks, LAMBDA h : h.type = "context")

\* The calls of one renderer in a call log.
CallsOf(view, calls) == SelectSeq(calls, LAMBDA c : c.view = view)

\* A call log is a prefix of another.
IsPrefix(a, b) == Len(a) <= Len(b) /\ SubSeq(b, 1, Len(a)) = a

\* The calls one renderer owes the current diff: perLine calls for each
\* context DiffLine, in diff order, with the line's content and the diff's
\* file path, and none for an added or a removed line.
CallsOwed(view, perLine) ==
  [k \in 1..(perLine * Len(ContextLines)) |->
     [view |-> view,
      code |-> ContextLines[(k + perLine - 1) \div perLine].content,
      filePath |-> diff.filePath]]

\* C14: with a highlight function, a constructor or setDiff that returns has
\* called it once per context DiffLine in the inline renderer and twice per
\* context DiffLine in the side-by-side renderer, in diff order, with the
\* line's content and the diff's file path; it is never called for an added
\* or removed DiffLine, and no render, scroll or mode operation calls it.
C14_HighlightCalls ==
  /\ (lastOp.name \in BuildOps /\ highlightFn # "none" /\ lastOp.ret # Thrown) =>
       /\ CallsOf("inline", highlightCalls) = CallsOwed("inline", 1)
       /\ CallsOf("side-by-side", highlightCalls) = CallsOwed("side-by-side", 2)
  /\ lastOp.name \in BuildOps =>
       /\ IsPrefix(CallsOf("inline", highlightCalls), CallsOwed("inline", 1))
       /\ IsPrefix(CallsOf("side-by-side", highlightCalls),
                   CallsOwed("side-by-side", 2))
       /\ highlightFn = "none" => highlightCalls = <<>>
  /\ lastOp.name \notin BuildOps => highlightCalls = <<>>

C14_Witness ==
  /\ lastOp.name = "setDiff"
  /\ highlightFn = "bold"
  /\ viewMode = "side-by-side"
  /\ Len(ContextLines) = 2
  /\ ContextLines[1].content # ContextLines[2].content
  /\ Len(diff.hunks) > Len(ContextLines)
  /\ Len(highlightCalls) = 6
  /\ prevOp.name = "render"

\* C15: when the highlight function throws for a context line while the
\* buffers are built, the constructor or setDiff still returns, every DiffLine
\* is in both buffers, and the context lines show their original content.
C15_HighlightFailureContained ==
  highlightFn = ThrowingFn =>
    /\ lastOp.name \in BuildOps => lastOp.ret # Thrown
    /\ inlineLines = InlineBuildRenderedLines(diff, "none")
    /\ sbsLines = SbsBuildRenderedLines(diff, "none")

(***************************************************************************)
(* The line-number column (specification SpecColumns): diffs whose line    *)
(* numbers cross from one digit to two, so that the numbers of one diff,   *)
(* and the old and new number of one line, differ in digit count.          *)
(***************************************************************************)
Keeps(n) == [i \in 1..n |-> "keep"]

\* Edit scripts of one to three lines after eight or nine unchanged lines.
ColScripts ==
  {Keeps(n) \o t : n \in {8, 9}, t \in SeqsUpTo(EditOps, 3) \ {<<>>}}

ColOrigins ==
  [script : ColScripts, contextLines : {0, 1}, numbered : {TRUE}]
    \cup [script : {Keeps(8) \o <<"rem", "add", "keep">>},
          contextLines : {1},
          content : {<<>>, <<"m">>, <<"[", "m">>, <<"a", "[">>}]

InitColumns == InitFrom(ColOrigins, CtlHighlightFns)

ColSetDiff == \E o \in CtlOrigins : setDiff(o)

ColSetViewMode == \E m \in ViewModes : setViewMode(m)

ColRender == \E w \in {MaxWidth, MinSideBySideWidth} : render(w, FullHeight)

NextColumns ==
  \/ ColSetDiff
  \/ ColSetViewMode
  \/ ColRender

SpecColumns == InitColumns /\ [][NextColumns]_vars

RECURSIVE StripEscapes(_, _)
\* s from index i on, without its escape sequences ESC '[' ... 'm'.
StripEscapes(s, i) ==
  IF i > Len(s) THEN <<>>
  ELSE IF s[i] = ESC /\ i < Len(s) /\ s[i + 1] = "[" /\ FirstIndexFrom(s, "m", i + 2) # 0
  THEN StripEscapes(s, FirstIndexFrom(s, "m", i + 2) + 1)
  ELSE <<s[i]>> \o StripEscapes(s, i + 1)

NoEscapeChar(s) == \A i \in 1..Len(s) : s[i] # ESC

Marker(hunk) ==
  CASE hunk.type = "added" -> "+"
    [] hunk.type = "removed" -> "-"
    [] hunk.type = "context" -> SPACE

\* The number the inline renderer shows for a DiffLine.
ShownNumber(hunk) ==
  IF "newLineNumber" \in DOMAIN hunk THEN hunk.newLineNumber ELSE hunk.oldLineNumber

\* The DiffLine that the i-th line of the inline buffer renders.
InlineHunkOfLine(i) ==
  diff.hunks[Cardinality({j \in 1..i : ~IsInlineSeparator(inlineLines[j])})]

\* An inline render that returned the whole buffer.
InlineRenderedInFull ==
  /\ lastOp.name = "render"
  /\ viewMode = "inline"
  /\ Len(lastOp.ret) = Len(inlineLines)

\* text is the number right-aligned, a space, the marker, a space, the content.
IsNumberMarkerContent(text, hunk) ==
  LET tail == toString(ShownNumber(hunk)) \o <<SPACE, Marker(hunk), SPACE>> \o hunk.content
  IN /\ endsWith(text, tail)
     /\ OnlySpaces(SubSeq(text, 1, Len(text) - Len(tail)))

\* C17: for a DiffLine whose content has no escape character, rendered inline
\* at a width at least as large as the line, the row without its escape
\* sequences is the right-aligned line number, a space, the marker, a space
\* and the content; without a highlight function it is the cached rawContent.
C17_StrippedRowIsRawLine ==
  InlineRenderedInFull =>
    \A i \in 1..Len(inlineLines) :
      LET hunk == InlineHunkOfLine(i)
          stripped == StripEscapes(lastOp.ret[i], 1)
      IN (/\ ~IsInlineSeparator(inlineLines[i])
          /\ NoEscapeChar(hunk.content)
          /\ lastOp.arg[1] >= Len(inlineLines[i].rawContent)) =>
           /\ IsNumberMarkerContent(stripped, hunk)
           /\ highlightFn = "none" => stripped = inlineLines[i].rawContent

C17_Witness ==
  /\ InlineRenderedInFull
  /\ highlightFn = "bold"
  /\ lastOp.arg[1] = MaxWidth
  /\ \E i \in 1..Len(inlineLines) :
       /\ InlineHunkOfLine(i).type = "context"
       /\ InlineHunkOfLine(i).content = <<"[", "m">>
       /\ Len(inlineLines[i].rawContent) <= MaxWidth
       /\ ShownNumber(InlineHunkOfLine(i)) >= 10

\* text has its number right-aligned in the first w columns, then a space,
\* the marker, a space and the content.
HasNumberColumn(text, hunk, w) ==
  /\ Len(toString(ShownNumber(hunk))) <= w
  /\ text = padStart(toString(ShownNumber(hunk)), w)
              \o <<SPACE, Marker(hunk), SPACE>> \o hunk.content

\* C18: every non-separator line of the inline buffer, and every row of a
\* render wide enough, has its line number right-aligned in a column of one
\* width for the whole diff, so marker and content start at the same column.
C18_OneNumberColumn ==
  \E w \in 1..3 :
    \A i \in 1..Len(inlineLines) :
      ~IsInlineSeparator(inlineLines[i]) =>
        /\ HasNumberColumn(inlineLines[i].rawContent, InlineHunkOfLine(i), w)
        /\ (InlineRenderedInFull /\ lastOp.arg[1] = MinSideBySideWidth) =>
             HasNumberColumn(StripEscapes(lastOp.ret[i], 1), InlineHunkOfLine(i), w)

C18_Witness ==
  /\ InlineRenderedInFull
  /\ lastOp.arg[1] = MinSideBySideWidth
  /\ \E i \in 1..Len(diff.hunks) :
       /\ diff.hunks[i].type = "context"
       /\ diff.hunks[i].oldLineNumber >= 10
       /\ diff.hunks[i].newLineNumber < 10
  /\ \E i \in 1..Len(diff.hunks) :
       /\ diff.hunks[i].type = "removed"
       /\ diff.hunks[i].oldLineNumber >= 10
  /\ \A i \in 1..Len(diff.hunks) :
       "newLineNumber" \in DOMAIN diff.hunks[i] => diff.hunks[i].newLineNumber < 10

(***************************************************************************)
(* The text-layout primitives on their own (specification SpecPrimitives): *)
(* truncateToWidth and padToWidth applied to every short string over plain *)
(* characters, 'm', '[', '0' and ESC, at every width from -1 up, so that   *)
(* unterminated, nested and bracketless escapes all occur.                 *)
(***************************************************************************)
MaxPrimLen == 4

PrimChars == ContentChars \cup {"0"}

PrimStrings == SeqsUpTo(PrimChars, MaxPrimLen)

PrimWidths == -1..MaxPrimLen

\* A renderer, and the string and the width the next call is made with.
InitPrimitives ==
  /\ origin = [script |-> <<"add">>, contextLines |-> 1]
  /\ diff = OriginDiff(origin)
  /\ highlightFn = "none"
  /\ inlineLines = InlineBuildRenderedLines(diff, highlightFn)
  /\ inlineOffset = 0
  /\ sbsLines = SbsBuildRenderedLines(diff, highlightFn)
  /\ sbsOffset = 0
  /\ viewMode = "inline"
  /\ \E line \in PrimStrings, width \in PrimWidths :
       lastOp = Op("input", <<line, width>>, <<>>)
  /\ prevOp = [name |-> "none", arg |-> <<>>]
  /\ highlightCalls = <<>>
  /\ ExtensionIdle

\* A call of a primitive with the input at hand: it touches no field of the
\* renderer.
PrimCalled(name, ret) ==
  /\ lastOp.name = "input"
  /\ lastOp' = Op(name, lastOp.arg, ret)
  /\ UNCHANGED <<origin, diff, highlightFn, inlineLines, inlineOffset, sbsLines,
                 sbsOffset, viewMode, prevOp, highlightCalls>>
  /\ UNCHANGED extVars

PrimInlineTruncate ==
  PrimCalled("InlineDiffView.truncateToWidth",
             InlineTruncateToWidth(lastOp.arg[1], lastOp.arg[2]))

PrimSbsTruncate ==
  PrimCalled("SideBySideDiffView.truncateToWidth",
             SbsTruncateToWidth(lastOp.arg[1], lastOp.arg[2]))

PrimSbsPad ==
  PrimCalled("SideBySideDiffView.padToWidth",
             SbsPadToWidth(lastOp.arg[1], lastOp.arg[1], lastOp.arg[2]))

NextPrimitives ==
  \/ PrimInlineTruncate
  \/ PrimSbsTruncate
  \/ PrimSbsPad

SpecPrimitives == InitPrimitives /\ [][NextPrimitives]_vars

TruncateOps ==
  {"InlineDiffView.truncateToWidth", "SideBySideDiffView.truncateToWidth"}

IsString(s) == s \in Seq(PrimChars \cup {SPACE})

\* C19: for every string, malformed escapes included, and every integer
\* width, truncateToWidth and padToWidth return a string; the truncated
\* string has at most width visible characters (none for a width below 0);
\* and a result that holds a style escape ends with the reset.
C19_PrimitivesOnMalformedInput ==
  /\ lastOp.name \in TruncateOps =>
       /\ IsString(lastOp.ret)
       /\ VisibleCount(lastOp.ret, 1) <= Max(0, lastOp.arg[2])
       /\ HasStyleEscape(lastOp.ret) => endsWith(lastOp.ret, RESET)
  /\ lastOp.name = "SideBySideDiffView.padToWidth" =>
       /\ IsString(lastOp.ret)
       /\ endsWith(lastOp.arg[1], RESET) => endsWith(lastOp.ret, RESET)

(***************************************************************************)
(* The extension (specification SpecExtension): the host runs write, edit  *)
(* and other tools on two files; each tool is announced by a tool_call     *)
(* event before it runs and reported by a tool_result event after it ran;  *)
(* the user moves the modal's selection and dismisses files.               *)
(***************************************************************************)
MaxToolCalls == 2

\* Map.has / Map.set / Map.delete on the preCapture map, a function whose
\* domain is the set of keys.
MapHas(map, key) == key \in DOMAIN map

MapSet(map, key, value) ==
  [k \in DOMAIN map \cup {key} |-> IF k = key THEN value ELSE map[k]]

MapDelete(map, key) == [k \in DOMAIN map \ {key} |-> map[k]]

\* readFileContent: the text of the file, the empty text when it cannot be read.
readFileContent(fs, filePath) == fs[filePath]

\* DiffState, as its operations are described: the store is the sequence of
\* its snapshots.
isTracked(store, path) == \E i \in 1..Len(store) : store[i].path = path

\* A trackFile that adds a snapshot whether or not the path is tracked.
trackFileAgain(store, path, baseline, current) ==
  Append(store, [path |-> path, baselineContent |-> baseline,
                 currentContent |-> current])

\* A trackFile that replaces the snapshot of a tracked path.
trackFileOverwrite(store, path, baseline, current) ==
  IF isTracked(store, path)
  THEN [i \in 1..Len(store) |->
          IF store[i].path = path
          THEN [path |-> path, baselineContent |-> baseline,
                currentContent |-> current]
          ELSE store[i]]
  ELSE Append(store, [path |-> path, baselineContent |-> baseline,
                      currentContent |-> current])

trackFile(store, path, baseline, current) ==
  IF isTracked(store, path) THEN store
  ELSE Append(store, [path |-> path, baselineContent |-> baseline,
                      currentContent |-> current])

\* An updateFile that starts tracking an untracked path, from an empty baseline.
updateFileUpsert(store, path, current) ==
  IF isTracked(store, path)
  THEN [i \in 1..Len(store) |->
          IF store[i].path = path
          THEN [store[i] EXCEPT !.currentContent = current]
          ELSE store[i]]
  ELSE Append(store, [path |-> path, baselineContent |-> <<>>,
                      currentContent |-> current])

updateFile(store, path, current) ==
  [i \in 1..Len(store) |->
     IF store[i].path = path
     THEN [store[i] EXCEPT !.currentContent = current]
     ELSE store[i]]

dismissFile(store, path) ==
  [i \in 1..Len(store) |->
     IF store[i].path = path
     THEN [store[i] EXCEPT !.baselineContent = store[i].currentContent]
     ELSE store[i]]

\* What updateFile and dismissFile answer: not found (the empty sequence) for
\* an untracked path.
foundResult(store, path) ==
  IF isTracked(store, path) THEN <<"found">> ELSE <<>>

changedSnapshots(store) ==
  SelectSeq(store, LAMBDA snap : snap.baselineContent # snap.currentContent)

getChangedFiles(store) ==
  [i \in 1..Len(changedSnapshots(store)) |-> changedSnapshots(store)[i].path]

pendingCount(store) == Len(getChangedFiles(store))

RECURSIVE LcsLength(_, _)
\* The length of a longest common subsequence of two texts' lines.
LcsLength(a, b) ==
  IF a = <<>> \/ b = <<>> THEN 0
  ELSE IF Head(a) = Head(b) THEN 1 + LcsLength(Tail(a), Tail(b))
  ELSE Max(LcsLength(Tail(a), b), LcsLength(a, Tail(b)))

RECURSIVE EditScriptRewrite(_, _)
\* An edit script that removes every baseline line and adds every current one.
EditScriptRewrite(a, b) ==
  IF a # <<>> THEN <<[op |-> "rem", line |-> Head(a)]>> \o EditScriptRewrite(Tail(a), b)
  ELSE IF b # <<>> THEN <<[op |-> "add", line |-> Head(b)]>> \o EditScriptRewrite(a, Tail(b))
  ELSE <<>>

RECURSIVE EditScript(_, _)
\* The line-level edit script from text a to text b along a longest common
\* subsequence: each step keeps, removes or adds one line.
EditScript(a, b) ==
  IF a = <<>> /\ b = <<>> THEN <<>>
  ELSE IF a = <<>>
    THEN <<[op |-> "add", line |-> Head(b)]>> \o EditScript(a, Tail(b))
  ELSE IF b = <<>>
    THEN <<[op |-> "rem", line |-> Head(a)]>> \o EditScript(Tail(a), b)
  ELSE IF Head(a) = Head(b)
    THEN <<[op |-> "keep", line |-> Head(a)]>> \o EditScript(Tail(a), Tail(b))
  ELSE IF LcsLength(Tail(a), b) >= LcsLength(a, Tail(b))
    THEN <<[op |-> "rem", line |-> Head(a)]>> \o EditScript(Tail(a), b)
  ELSE <<[op |-> "add", line |-> Head(b)]>> \o EditScript(a, Tail(b))

\* The number of steps of an edit script with the given operation.
CountOps(script, op) == Cardinality({i \in 1..Len(script) : script[i] = op})

\* computeDiff(baseline, current, contextLines), the file path left to the
\* caller: the counts are those of the edit script, the DiffLines are the
\* steps that the context window keeps, each with the text of its line.
computeDiff(baseline, current, contextLines) ==
  LET steps == EditScript(baseline, current)
      script == [i \in 1..Len(steps) |-> steps[i].op]
      shown == ScriptShownIndices(script, contextLines, 1)
  IN [isNewFile |-> baseline = <<>> /\ current # <<>>,
      additions |-> CountOps(script, "add"),
      deletions |-> CountOps(script, "rem"),
      hunks |-> [k \in 1..Len(shown) |->
                   [ScriptDiffLine(script, shown[k]) EXCEPT
                      !.content = <<steps[shown[k]].line>>]]]

\* The default of computeDiff's contextLines.
DiffContextLines == 3

\* getFileDiff: not found (the empty sequence) for an untracked path, else
\* the diff of the snapshot's baseline and current content.
getFileDiff(store, path) ==
  IF ~isTracked(store, path) THEN <<>>
  ELSE LET snap == store[CHOOSE i \in 1..Len(store) : store[i].path = path]
           d == computeDiff(snap.baselineContent, snap.currentContent, DiffContextLines)
       IN <<[filePath |-> path, isNewFile |-> d.isNewFile,
             additions |-> d.additions, deletions |-> d.deletions,
             hunks |-> d.hunks]>>

\* diff?.additions ?? 0 and its like: the field of a diff that was found, the
\* default otherwise.
FieldOr(found, field, default) ==
  IF found = <<>> THEN default ELSE found[1][field]

\* DiffReviewModal.refresh: the file list it builds and the index it keeps.
refreshFileList(store) ==
  [i \in 1..Len(getChangedFiles(store)) |->
     LET d == getFileDiff(store, getChangedFiles(store)[i])
     IN [path |-> getChangedFiles(store)[i],
         additions |-> FieldOr(d, "additions", 0),
         deletions |-> FieldOr(d, "deletions", 0),
         isNewFile |-> FieldOr(d, "isNewFile", FALSE)]]

refreshSelectedIndex(fileList, selectedIndex) ==
  IF Len(fileList) = 0 THEN 0
  ELSE IF selectedIndex >= Len(fileList) THEN Len(fileList) - 1
  ELSE selectedIndex

refresh(store) ==
  /\ modalFileList' = refreshFileList(store)
  /\ modalSelectedIndex' = refreshSelectedIndex(refreshFileList(store), modalSelectedIndex)

\* getStatusText: the count and the word of the status text, if any.
getStatusText(count) ==
  IF count = 0 THEN <<>>
  ELSE <<[count |-> count, fileWord |-> IF count = 1 THEN "file" ELSE "files"]>>

MaxWidgetFiles == 5

\* A getWidgetLines that adds the "more" line from five files on.
getWidgetLinesMoreAtLimit(changedFiles) ==
  IF Len(changedFiles) = 0 THEN <<>>
  ELSE LET totalCount == Len(changedFiles)
           displayFiles == slice(changedFiles, 0, MaxWidgetFiles)
       IN <<[count |-> totalCount,
             fileWord |-> IF totalCount = 1 THEN "file" ELSE "files"]>>
            \o [i \in 1..Len(displayFiles) |->
                  [path |-> displayFiles[i].path,
                   additions |-> displayFiles[i].additions,
                   deletions |-> displayFiles[i].deletions]]
            \o (IF totalCount >= MaxWidgetFiles
                THEN <<[more |-> totalCount - MaxWidgetFiles]>> ELSE <<>>)

\* getWidgetLines: undefined (the empty sequence) for no file, else the
\* header, a line per file shown, and the "more" line.
getWidgetLines(changedFiles) ==
  IF Len(changedFiles) = 0 THEN <<>>
  ELSE LET totalCount == Len(changedFiles)
           displayFiles == slice(changedFiles, 0, MaxWidgetFiles)
       IN <<[count |-> totalCount,
             fileWord |-> IF totalCount = 1 THEN "file" ELSE "files"]>>
            \o [i \in 1..Len(displayFiles) |->
                  [path |-> displayFiles[i].path,
                   additions |-> displayFiles[i].additions,
                   deletions |-> displayFiles[i].deletions]]
            \o (IF totalCount > MaxWidgetFiles
                THEN <<[more |-> totalCount - MaxWidgetFiles]>> ELSE <<>>)

\* The ui after updateStatus(ctx) on a store.
statusShown(ctx, store) ==
  IF ~ctx.hasUI THEN ui
  ELSE [ui EXCEPT
          !.status = getStatusText(pendingCount(store)),
          !.widget = getWidgetLines(
            [i \in 1..Len(getChangedFiles(store)) |->
               LET d == getFileDiff(store, getChangedFiles(store)[i])
               IN [path |-> getChangedFiles(store)[i],
                   additions |-> FieldOr(d, "additions", 0),
                   deletions |-> FieldOr(d, "deletions", 0)]])]

\* updateStatus(ctx)
updateStatus(ctx, store) == ui' = statusShown(ctx, store)

\* The events of the host.  input.path and input.content are optional: a
\* missing path is the empty path, a missing content the empty sequence of
\* texts.
ToolEvent(toolName, path, content) ==
  [toolName |-> toolName, input |-> [path |-> path, content |-> content]]

ToolEvents ==
  {ToolEvent("write", <<"a.ts">>, <<<<"y">>>>),
   ToolEvent("write", <<".", "/", "/", "b", "/", "..", "/", "a.ts">>, <<>>),
   ToolEvent("edit", <<"/", "w", "/", "a.ts">>, <<>>),
   ToolEvent("write", <<"/", "w", "/", "b.ts">>, <<<<"y">>>>),
   ToolEvent("bash", <<>>, <<>>),
   ToolEvent("write", <<>>, <<<<"x">>>>)}

\* The ctx the host hands to the handlers of a session.
Context == [cwd |-> Cwd, hasUI |-> ui.hasUI]

\* The handlers look at an event at all.
Handled(event) ==
  /\ event.toolName \in {"write", "edit"}
  /\ event.input.path # <<>>

\* A tool_call handler that looks only at the preCapture map.
preCaptureUnlessCaptured(event, ctx) ==
  IF ~Handled(event) THEN preCapture
  ELSE LET resolved == resolvePath(event.input.path, ctx.cwd)
       IN IF ~MapHas(preCapture, resolved)
          THEN MapSet(preCapture, resolved, readFileContent(files, resolved))
          ELSE preCapture

\* pi.on("tool_call"): the preCapture map it leaves.
preCaptureAfterToolCall(event, ctx) ==
  IF ~Handled(event) THEN preCapture
  ELSE LET resolved == resolvePath(event.input.path, ctx.cwd)
       IN IF ~isTracked(snapshots, resolved) /\ ~MapHas(preCapture, resolved)
          THEN MapSet(preCapture, resolved, readFileContent(files, resolved))
          ELSE preCapture

\* The host announces a tool: the tool_call handler runs.
toolCall(event, ctx) ==
  /\ toolCalls < MaxToolCalls
  /\ toolCalls' = toolCalls + 1
  /\ inFlight' = inFlight (+) SetToBag({event})
  /\ preCapture' = preCaptureAfterToolCall(event, ctx)
  /\ history' =
       IF Handled(event)
            /\ history.firstCall[resolvePath(event.input.path, ctx.cwd)] = None
       THEN [history EXCEPT
               !.firstCall[resolvePath(event.input.path, ctx.cwd)] =
                  readFileContent(files, resolvePath(event.input.path, ctx.cwd))]
       ELSE history
  /\ UNCHANGED <<files, snapshots, modalFileList, modalSelectedIndex, modalOpen,
                 currentDoneCallback, viewController, clip, ui>>
  /\ UNCHANGED ctlVars

\* pi.on("tool_result"): the content it takes as current, on the file system
\* the tool left.
currentContentOf(event, resolved, fs) ==
  IF event.toolName = "write"
  THEN IF event.input.content # <<>> THEN event.input.content[1] ELSE <<>>
  ELSE readFileContent(fs, resolved)

\* A tool_result handler that tracks a new path from an empty baseline.
snapshotsAfterToolResultEmptyBaseline(event, ctx, fs) ==
  LET resolved == resolvePath(event.input.path, ctx.cwd)
      currentContent == currentContentOf(event, resolved, fs)
  IN IF isTracked(snapshots, resolved)
     THEN updateFile(snapshots, resolved, currentContent)
     ELSE trackFile(snapshots, resolved, <<>>, currentContent)

\* A tool_result handler that updates only the files that are pending and
\* tracks every other one.
snapshotsAfterToolResultPendingOnly(event, ctx, fs) ==
  LET resolved == resolvePath(event.input.path, ctx.cwd)
      currentContent == currentContentOf(event, resolved, fs)
  IN IF \E i \in 1..Len(getChangedFiles(snapshots)) :
          getChangedFiles(snapshots)[i] = resolved
     THEN updateFile(snapshots, resolved, currentContent)
     ELSE trackFile(snapshots, resolved,
                    IF MapHas(preCapture, resolved) THEN preCapture[resolved] ELSE <<>>,
                    currentContent)

\* pi.on("tool_result"): the store it leaves.
snapshotsAfterToolResult(event, ctx, fs) ==
  LET resolved == resolvePath(event.input.path, ctx.cwd)
      currentContent == currentContentOf(event, resolved, fs)
  IN IF isTracked(snapshots, resolved)
     THEN updateFile(snapshots, resolved, currentContent)
     ELSE trackFile(snapshots, resolved,
                    IF MapHas(preCapture, resolved) THEN preCapture[resolved] ELSE <<>>,
                    currentContent)

\* The file systems a tool can leave: a write puts its content or fails (it
\* fails without a path), an edit puts any text, another tool changes any one
\* file or none.
FilesAfterTool(event, ctx) ==
  IF Handled(event)
  THEN LET resolved == resolvePath(event.input.path, ctx.cwd)
       IN IF event.toolName = "write"
          THEN {files, [files EXCEPT ![resolved] =
                          IF event.input.content # <<>>
                          THEN event.input.content[1] ELSE <<>>]}
          ELSE {[files EXCEPT ![resolved] = t] : t \in Texts}
  ELSE IF event.toolName \in {"write", "edit"} THEN {files}
  ELSE {files} \cup {[files EXCEPT ![p] = t] : p \in ResolvedPaths, t \in Texts}

\* A tool that was announced runs and the host reports it: the tool_result
\* handler runs.
toolResult(event, ctx) ==
  /\ BagIn(event, inFlight)
  /\ inFlight' = inFlight (-) SetToBag({event})
  /\ files' \in FilesAfterTool(event, ctx)
  /\ IF ~Handled(event)
     THEN UNCHANGED <<preCapture, snapshots, modalFileList, modalSelectedIndex,
                      ui, history>>
     ELSE LET resolved == resolvePath(event.input.path, ctx.cwd)
              store == snapshotsAfterToolResult(event, ctx, files')
          IN /\ snapshots' = store
             /\ preCapture' = IF isTracked(snapshots, resolved) THEN preCapture
                              ELSE MapDelete(preCapture, resolved)
             /\ refresh(store)
             /\ updateStatus(ctx, store)
             /\ history' = [history EXCEPT
                  !.lastResult[resolved] = currentContentOf(event, resolved, files'),
                  !.results[resolved] = @ + 1]
  /\ UNCHANGED <<toolCalls, modalOpen, currentDoneCallback, viewController,
                 clip>>
  /\ UNCHANGED ctlVars

\* DiffReviewModal.selectedFile
selectedFile ==
  IF Len(modalFileList) = 0 \/ modalSelectedIndex + 1 \notin 1..Len(modalFileList)
  THEN <<>>
  ELSE <<modalFileList[modalSelectedIndex + 1].path>>

\* DiffReviewModal.selectNext: the index it leaves.
selectNextIndex(fileList, selectedIndex) ==
  IF Len(fileList) = 0 THEN selectedIndex
  ELSE (selectedIndex + 1) % Len(fileList)

\* A selectPrevious that stops at the first file.
selectPreviousIndexNoWrap(fileList, selectedIndex) ==
  IF Len(fileList) = 0 THEN selectedIndex
  ELSE IF selectedIndex = 0 THEN 0
  ELSE selectedIndex - 1

\* DiffReviewModal.selectPrevious: the index it leaves.
selectPreviousIndex(fileList, selectedIndex) ==
  IF Len(fileList) = 0 THEN selectedIndex
  ELSE IF selectedIndex = 0 THEN Len(fileList) - 1
  ELSE selectedIndex - 1

\* A selectIndex that takes the index as it is given.
selectIndexUnclamped(fileList, index) ==
  IF Len(fileList) = 0 THEN 0 ELSE index

\* DiffReviewModal.selectIndex: the index it leaves.
selectIndexClamped(fileList, index) ==
  IF Len(fileList) = 0 THEN 0
  ELSE Max(0, Min(index, Len(fileList) - 1))

selectNext ==
  modalSelectedIndex' = selectNextIndex(modalFileList, modalSelectedIndex)

selectPrevious ==
  modalSelectedIndex' = selectPreviousIndex(modalFileList, modalSelectedIndex)

selectIndex(index) ==
  modalSelectedIndex' = selectIndexClamped(modalFileList, index)

\* !selectedPath: no file is selected, or the selected path is the empty
\* string.
noSelectedPath == IF selectedFile = <<>> THEN TRUE ELSE selectedFile[1] = <<>>

\* A dismissSelected that leaves the list as it is.
dismissSelectedNoRefresh ==
  IF noSelectedPath
  THEN UNCHANGED <<snapshots, modalFileList, modalSelectedIndex>>
  ELSE /\ snapshots' = dismissFile(snapshots, selectedFile[1])
       /\ UNCHANGED <<modalFileList, modalSelectedIndex>>

\* A dismissSelected that dismisses the first file of the list.
dismissSelectedFirstFile ==
  IF noSelectedPath
  THEN UNCHANGED <<snapshots, modalFileList, modalSelectedIndex>>
  ELSE /\ snapshots' = dismissFile(snapshots, modalFileList[1].path)
       /\ refresh(dismissFile(snapshots, modalFileList[1].path))

\* DiffReviewModal.dismissSelected; the final clamp repeats the one of refresh.
dismissSelected ==
  IF noSelectedPath
  THEN UNCHANGED <<snapshots, modalFileList, modalSelectedIndex>>
  ELSE /\ snapshots' = dismissFile(snapshots, selectedFile[1])
       /\ refresh(dismissFile(snapshots, selectedFile[1]))

\* DiffReviewModal.getSelectedDiff on a given store, list and selection:
\* undefined when no file is selected or the selected path is the empty
\* string (!selectedPath), else the store's diff of the selected path.
getSelectedDiff(store, fileList, selectedIndex) ==
  IF Len(fileList) = 0 \/ selectedIndex + 1 \notin 1..Len(fileList)
  THEN <<>>
  ELSE IF fileList[selectedIndex + 1].path = <<>>
  THEN <<>>
  ELSE getFileDiff(store, fileList[selectedIndex + 1].path)

\* A buildViewController that keeps the controller it has.
buildViewControllerKeepsOld(store, fileList, selectedIndex) ==
  UNCHANGED viewController

\* buildViewController(): a new DiffViewController on the selected diff, in
\* inline mode with both renderers at the top, or none when there is no
\* selected diff.
buildViewController(store, fileList, selectedIndex) ==
  viewController' =
    IF getSelectedDiff(store, fileList, selectedIndex) = <<>> THEN <<>>
    ELSE <<[diff |-> getSelectedDiff(store, fileList, selectedIndex)[1],
            viewMode |-> "inline",
            inlineOffset |-> 0,
            sbsOffset |-> 0]>>

\* render(width) of the overlay: the diff whose rows it shows, none when the
\* file list is empty or there is no view controller.
overlayShownDiff ==
  IF Len(modalFileList) = 0 \/ viewController = <<>> THEN <<>>
  ELSE <<viewController[1].diff>>

\* ctx.ui.custom(factory): the host shows one more overlay and runs the
\* factory, which keeps the done callback of the overlay.
showOverlay(shown) ==
  /\ currentDoneCallback' = TRUE
  /\ buildViewController(snapshots, modalFileList', modalSelectedIndex')
  /\ ui' = [shown EXCEPT !.overlays = @ + 1]

\* done(): the host removes the overlay, if it still shows it, and resolves
\* the promise the shortcut handler awaits.  The handler itself goes on later
\* (shortcutResumes): modalOpen and currentDoneCallback stay as they are.
done(shown) ==
  /\ ui' = [shown EXCEPT !.overlays = Max(0, @ - 1)]
  /\ viewController' = <<>>
  /\ UNCHANGED <<modalOpen, currentDoneCallback>>

\* ctx.ui.notify(message)
notify(message) == ui' = [ui EXCEPT !.notice = <<message>>]

\* The ctrl+shift+r shortcut, up to its await or its return: it calls the
\* done callback when modalOpen and the callback are set (also when the
\* overlay of that callback is gone already and the handler that opened it
\* has not resumed yet), opens the modal when there is something to review,
\* and notifies otherwise.
toggleModal(ctx) ==
  /\ IF ~ctx.hasUI
       THEN UNCHANGED <<modalOpen, currentDoneCallback, viewController, ui,
                        modalFileList, modalSelectedIndex>>
     ELSE IF modalOpen /\ currentDoneCallback
       THEN done(ui) /\ UNCHANGED <<modalFileList, modalSelectedIndex>>
     ELSE IF pendingCount(snapshots) = 0
       THEN /\ notify("No file changes to review")
            /\ UNCHANGED <<modalOpen, currentDoneCallback, viewController,
                           modalFileList, modalSelectedIndex>>
     ELSE /\ refresh(snapshots)
          /\ modalOpen' = TRUE
          /\ showOverlay(ui)
  /\ UNCHANGED <<files, preCapture, snapshots, clip, inFlight, toolCalls, history>>
  /\ UNCHANGED ctlVars

\* The shortcut handler that opened the modal resumes after its await, once
\* done() was called: modalOpen = false, currentDoneCallback = null.
shortcutResumes ==
  /\ modalOpen
  /\ ui.overlays = 0
  /\ modalOpen' = FALSE
  /\ currentDoneCallback' = FALSE
  /\ UNCHANGED <<files, preCapture, snapshots, modalFileList, modalSelectedIndex,
                 viewController, clip, ui, inFlight, toolCalls, history>>
  /\ UNCHANGED ctlVars

\* copyToClipboard(text), clipboard.ts.
\* The commands tried, in the order of the array.
ClipCommands ==
  <<[cmd |-> "xclip", args |-> <<"-selection clipboard">>],
    [cmd |-> "xsel", args |-> <<"--clipboard --input">>],
    [cmd |-> "pbcopy", args |-> <<>>]>>

\* JSON.stringify of a string, between its quotes: quote and backslash get a
\* backslash; the control characters U+0000..U+001F are written as \b, \t,
\* \n, \f, \r or as \u00 and two lower-case hex digits; a lone surrogate is
\* written as \u and its four lower-case hex digits; every other character
\* stands for itself.  A character that has no spelling in a TLA+ string is
\* the token of its code point: "U+0001".  Of the lone surrogates the first
\* and the last of either half are in the table.
RECURSIVE JsonEscape(_)
JsonEscape(text) ==
  LET controlCharacters ==
        <<"U+0000", "U+0001", "U+0002", "U+0003", "U+0004", "U+0005", "U+0006",
          "U+0007", "U+0008", "\t", "\n", "U+000B", "\f", "\r", "U+000E",
          "U+000F", "U+0010", "U+0011", "U+0012", "U+0013", "U+0014", "U+0015",
          "U+0016", "U+0017", "U+0018", "U+0019", "U+001A", "U+001B", "U+001C",
          "U+001D", "U+001E", "U+001F">>
      hexDigits == <<"0", "1", "2", "3", "4", "5", "6", "7", "8", "9", "a", "b",
                     "c", "d", "e", "f">>
      codeOf(c) == (CHOOSE i \in 1..32 : controlCharacters[i] = c) - 1
      escaped(c) ==
        IF c \in {"\"", "\\"} THEN <<"\\", c>>
        ELSE IF c = "U+0008" THEN <<"\\", "b">>
        ELSE IF c = "\t" THEN <<"\\", "t">>
        ELSE IF c = "\n" THEN <<"\\", "n">>
        ELSE IF c = "\f" THEN <<"\\", "f">>
        ELSE IF c = "\r" THEN <<"\\", "r">>
        ELSE IF \E i \in 1..32 : controlCharacters[i] = c
        THEN <<"\\", "u", "0", "0", hexDigits[(codeOf(c) \div 16) + 1],
               hexDigits[(codeOf(c) % 16) + 1]>>
        ELSE IF c = "U+D800" THEN <<"\\", "u", "d", "8", "0", "0">>
        ELSE IF c = "U+DBFF" THEN <<"\\", "u", "d", "b", "f", "f">>
        ELSE IF c = "U+DC00" THEN <<"\\", "u", "d", "c", "0", "0">>
        ELSE IF c = "U+DFFF" THEN <<"\\", "u", "d", "f", "f", "f">>
        ELSE <<c>>
  IN IF text = <<>> THEN <<>>
     ELSE escaped(Head(text)) \o JsonEscape(Tail(text))

JsonStringify(text) == <<"\"">> \o JsonEscape(text) \o <<"\"">>

\* The shell command of one attempt.
fullCommand(text, command) ==
  IF command.args # <<>>
  THEN <<"echo", " ">> \o JsonStringify(text) \o <<" ", "|", " ", command.cmd, " ">> \o command.args
  ELSE <<"echo", " ">> \o JsonStringify(text) \o <<" ", "|", " ", command.cmd>>

\* What the awaited exec can do: resolve, reject with an error, or reject
\* after the 5000 ms timeout.
ExecOutcomes == {"ok", "error", "timeout"}

\* Calls of copyToClipboard that run at the same time, as far as they are
\* followed.
MaxCopies == 2

\* The call up to its first await: nothing has run yet.
clipStarted(text) ==
  [pc |-> "exec", text |-> text, ran |-> <<>>, result |-> <<>>]

\* A loop that gives up at the first command that fails.
afterExecGivesUp(c, outcome) ==
  LET command == ClipCommands[Len(c.ran) + 1]
      ran == Append(c.ran, [cmd |-> command.cmd,
                            command |-> fullCommand(c.text, command),
                            outcome |-> outcome])
  IN IF outcome = "ok"
     THEN [c EXCEPT !.pc = "resolved", !.ran = ran, !.result = <<TRUE>>]
     ELSE [c EXCEPT !.pc = "resolved", !.ran = ran, !.result = <<FALSE>>]

\* The loop from one await to the next: return true when the command
\* succeeded, go on to the next command when it failed, return false after
\* the last one.
afterExec(c, outcome) ==
  LET command == ClipCommands[Len(c.ran) + 1]
      ran == Append(c.ran, [cmd |-> command.cmd,
                            command |-> fullCommand(c.text, command),
                            outcome |-> outcome])
  IN IF outcome = "ok"
     THEN [c EXCEPT !.pc = "resolved", !.ran = ran, !.result = <<TRUE>>]
     ELSE IF Len(ran) < Len(ClipCommands)
     THEN [c EXCEPT !.ran = ran]
     ELSE [c EXCEPT !.pc = "resolved", !.ran = ran, !.result = <<FALSE>>]

\* The inputs of the open modal: the keys handleInput tests for, and "x" for
\* every other input, which falls through all its tests.
Keys ==
  {"escape", "up", "k", "down", "j", "ctrl+u", "ctrl+d", "tab", "d", "y", "x"}

\* tui.width when the tab key is handled.
TuiWidths == {MinSideBySideWidth - 1, MinSideBySideWidth}

\* handleInput(data) of the overlay that is shown.  The highlight function
\* of the view controller changes the text of the rendered lines, never
\* their number, which is all the scroll keys read.  copyToClipboard is
\* started and not awaited: the call of the key y runs next to the calls
\* that earlier presses started.
handleInput(data, extCtx) ==
  /\ ui.overlays > 0
  /\ CASE data = "escape" ->
            /\ done(ui)
            /\ UNCHANGED <<snapshots, modalFileList, modalSelectedIndex, clip,
                           history>>
       [] data \in {"up", "k"} ->
            /\ selectPrevious
            /\ buildViewController(snapshots, modalFileList, modalSelectedIndex')
            /\ UNCHANGED <<snapshots, modalFileList, modalOpen,
                           currentDoneCallback, clip, ui, history>>
       [] data \in {"down", "j"} ->
            /\ selectNext
            /\ buildViewController(snapshots, modalFileList, modalSelectedIndex')
            /\ UNCHANGED <<snapshots, modalFileList, modalOpen,
                           currentDoneCallback, clip, ui, history>>
       [] data = "ctrl+u" ->
            /\ viewController' =
                 IF viewController = <<>> THEN <<>>
                 ELSE IF viewController[1].viewMode = "inline"
                 THEN <<[viewController[1] EXCEPT
                           !.inlineOffset = InlineScrollUp(@, 10)]>>
                 ELSE <<[viewController[1] EXCEPT
                           !.sbsOffset = SbsScrollUp(@, 10)]>>
            /\ UNCHANGED <<snapshots, modalFileList, modalSelectedIndex,
                           modalOpen, currentDoneCallback, clip, ui, history>>
       [] data = "ctrl+d" ->
            /\ viewController' =
                 IF viewController = <<>> THEN <<>>
                 ELSE IF viewController[1].viewMode = "inline"
                 THEN <<[viewController[1] EXCEPT
                           !.inlineOffset =
                              InlineScrollDown(@,
                                InlineBuildRenderedLines(viewController[1].diff, "none"),
                                10)]>>
                 ELSE <<[viewController[1] EXCEPT
                           !.sbsOffset =
                              SbsScrollDown(@,
                                SbsBuildRenderedLines(viewController[1].diff, "none"),
                                10)]>>
            /\ UNCHANGED <<snapshots, modalFileList, modalSelectedIndex,
                           modalOpen, currentDoneCallback, clip, ui, history>>
       [] data = "tab" ->
            /\ \E width \in TuiWidths :
                 viewController' =
                   IF viewController = <<>> THEN <<>>
                   ELSE IF viewController[1].viewMode = "inline"
                   THEN IF canUseSideBySide(width)
                        THEN <<[viewController[1] EXCEPT
                                  !.viewMode = "side-by-side",
                                  !.inlineOffset = InlineScrollToTop,
                                  !.sbsOffset = SbsScrollToTop]>>
                        ELSE viewController
                   ELSE <<[viewController[1] EXCEPT
                             !.viewMode = "inline",
                             !.inlineOffset = InlineScrollToTop,
                             !.sbsOffset = SbsScrollToTop]>>
            /\ UNCHANGED <<snapshots, modalFileList, modalSelectedIndex,
                           modalOpen, currentDoneCallback, clip, ui, history>>
       [] data = "d" ->
            /\ dismissSelected
            /\ IF Len(modalFileList') = 0
               THEN done(statusShown(extCtx, snapshots'))
               ELSE /\ ui' = statusShown(extCtx, snapshots')
                    /\ buildViewController(snapshots', modalFileList',
                                           modalSelectedIndex')
                    /\ UNCHANGED <<modalOpen, currentDoneCallback>>
            /\ history' = IF noSelectedPath THEN history
                          ELSE [history EXCEPT
                                  !.dismissed[selectedFile[1]] = TRUE,
                                  !.rebaseline[selectedFile[1]] =
                                     history.lastResult[selectedFile[1]]]
            /\ UNCHANGED clip
       [] data = "y" ->
            /\ IF noSelectedPath THEN TRUE ELSE BagCardinality(clip) < MaxCopies
            /\ clip' = IF ~noSelectedPath
                       THEN clip (+) SetToBag({clipStarted(selectedFile[1])})
                       ELSE clip
            /\ UNCHANGED <<snapshots, modalFileList, modalSelectedIndex,
                           modalOpen, currentDoneCallback, viewController, ui,
                           history>>
       [] OTHER ->
            UNCHANGED <<snapshots, modalFileList, modalSelectedIndex, modalOpen,
                        currentDoneCallback, viewController, clip, ui, history>>
  /\ UNCHANGED <<files, preCapture, inFlight, toolCalls>>
  /\ UNCHANGED ctlVars

\* tui.height when the overlay is rendered: undefined, or a number of rows.
TuiHeights == {<<>>, <<9>>}

\* render(width) of the overlay that is shown, which the host calls after a
\* requestRender().  Of the state it changes the scroll offset of the active
\* view, which viewController.render clamps to the height that is left
\* below the title, the border, the file list, the second border and the
\* line of the view mode.
componentRender(width, height) ==
  /\ ui.overlays > 0
  /\ viewController' =
       IF Len(modalFileList) = 0 \/ viewController = <<>> THEN viewController
       ELSE LET linesLength == Len(modalFileList) + 4
                availableHeight ==
                  Max(5, (IF height = <<>> THEN 50 ELSE height[1]) - linesLength - 2)
            IN IF viewController[1].viewMode = "inline"
               THEN <<[viewController[1] EXCEPT
                         !.inlineOffset =
                            InlineRenderOffset(@,
                              InlineBuildRenderedLines(viewController[1].diff, "none"),
                              availableHeight)]>>
               ELSE <<[viewController[1] EXCEPT
                         !.sbsOffset =
                            SbsRenderOffset(@,
                              SbsBuildRenderedLines(viewController[1].diff, "none"),
                              availableHeight)]>>
  /\ UNCHANGED <<files, preCapture, snapshots, modalFileList, modalSelectedIndex,
                 modalOpen, currentDoneCallback, clip, ui, inFlight, toolCalls,
                 history>>
  /\ UNCHANGED ctlVars

\* The file systems the extension starts on: the files empty (or missing) or
\* holding one line.
FileSystems == {[p \in ResolvedPaths |-> t] : t \in {<<>>, <<"x">>}}

InitExtension ==
  /\ NewController({[script |-> <<"add">>, contextLines |-> 1]}, {"none"})
  /\ ExtInit(FileSystems, BOOLEAN)

ExtToolCall == \E event \in ToolEvents : toolCall(event, Context)

ExtToolResult == \E event \in ToolEvents : toolResult(event, Context)

ExtToggleModal == toggleModal(Context)

ExtHandleInput == \E data \in Keys : handleInput(data, Context)

ExtShortcutResumes == shortcutResumes

ExtRender ==
  \E width \in TuiWidths, height \in TuiHeights : componentRender(width, height)

\* The exec of one of the copyToClipboard calls that the key y started
\* settles.  The handler did not keep the promise: once the call returns,
\* nothing of it is left in the extension.
ExtExecSettles ==
  /\ \E c \in BagToSet(clip), outcome \in ExecOutcomes :
       clip' = IF afterExec(c, outcome).pc = "resolved"
               THEN clip (-) SetToBag({c})
               ELSE (clip (-) SetToBag({c})) (+) SetToBag({afterExec(c, outcome)})
  /\ UNCHANGED <<files, preCapture, snapshots, modalFileList, modalSelectedIndex,
                 modalOpen, currentDoneCallback, viewController, ui, inFlight,
                 toolCalls, history>>
  /\ UNCHANGED ctlVars

NextExtension ==
  \/ ExtToolCall
  \/ ExtToolResult
  \/ ExtToggleModal
  \/ ExtHandleInput
  \/ ExtShortcutResumes
  \/ ExtRender
  \/ ExtExecSettles

SpecExtension == InitExtension /\ [][NextExtension]_vars

\* The same with the scheduling of the event loop: a handler whose awaited
\* promise was resolved resumes.
SpecExtensionFair == SpecExtension /\ WF_vars(ExtShortcutResumes)

\* The snapshot of a tracked path.
SnapshotOf(path) ==
  snapshots[CHOOSE i \in 1..Len(snapshots) : snapshots[i].path = path]

\* C20: for a tracked path that was not dismissed, the baseline is the text
\* the file had at the first write or edit tool_call for the path and the
\* current content is the one the last tool_result for the path took; a
\* tool_call changes no snapshot and no content captured before.
C20_BaselineIsFirstCapture ==
  /\ [](\A p \in ResolvedPaths :
          (isTracked(snapshots, p) /\ ~history.dismissed[p]) =>
            /\ SnapshotOf(p).baselineContent = history.firstCall[p]
            /\ SnapshotOf(p).currentContent = history.lastResult[p])
  /\ [][toolCalls' # toolCalls =>
          /\ snapshots' = snapshots
          /\ \A p \in DOMAIN preCapture :
               MapHas(preCapture', p) /\ preCapture'[p] = preCapture[p]]_vars

C20_Witness ==
  \E p \in ResolvedPaths :
    /\ isTracked(snapshots, p)
    /\ ~history.dismissed[p]
    /\ history.results[p] >= 2
    /\ SnapshotOf(p).baselineContent = history.firstCall[p]
    /\ SnapshotOf(p).baselineContent # files[p]
    /\ SnapshotOf(p).currentContent = files[p]
    /\ SnapshotOf(p).baselineContent # <<>>
    /\ toolCalls = MaxToolCalls

(***************************************************************************)
(* The Diff Engine on its own (specification SpecDiff): computeDiff is     *)
(* called once with a baseline, a current text and a context size.         *)
(***************************************************************************)
MaxTextLines == 4

DiffTexts == SeqsUpTo({"x", "y"}, MaxTextLines)

\* A renderer that is left alone, and the arguments the next call is made with.
InitWithInput(inputs) ==
  /\ origin = [script |-> <<"add">>, contextLines |-> 1]
  /\ diff = OriginDiff(origin)
  /\ highlightFn = "none"
  /\ inlineLines = InlineBuildRenderedLines(diff, highlightFn)
  /\ inlineOffset = 0
  /\ sbsLines = SbsBuildRenderedLines(diff, highlightFn)
  /\ sbsOffset = 0
  /\ viewMode = "inline"
  /\ \E input \in inputs : lastOp = Op("input", input, <<>>)
  /\ prevOp = [name |-> "none", arg |-> <<>>]
  /\ highlightCalls = <<>>
  /\ ExtensionIdle

InitDiff ==
  InitWithInput(DiffTexts \X DiffTexts \X (0..MaxContextLines))

DiffComputeDiff ==
  PrimCalled("computeDiff", computeDiff(lastOp.arg[1], lastOp.arg[2], lastOp.arg[3]))

NextDiff == DiffComputeDiff

SpecDiff == InitDiff /\ [][NextDiff]_vars

\* The number of DiffLines of a type.
CountType(hunks, type) ==
  Cardinality({k \in 1..Len(hunks) : hunks[k].type = type})

\* C25: in every FileDiff that computeDiff returns, additions is the number of
\* DiffLines tagged added and deletions the number tagged removed.
C25_CountsMatchTags ==
  lastOp.name = "computeDiff" =>
    /\ lastOp.ret.additions = CountType(lastOp.ret.hunks, "added")
    /\ lastOp.ret.deletions = CountType(lastOp.ret.hunks, "removed")

C25_Witness ==
  /\ lastOp.name = "computeDiff"
  /\ lastOp.ret.additions >= 1
  /\ lastOp.ret.deletions >= 2
  /\ CountType(lastOp.ret.hunks, "context") >= 1
  /\ Len(lastOp.ret.hunks) < Len(EditScript(lastOp.arg[1], lastOp.arg[2]))

\* C26: computeDiff of a text with itself, at every context size, has no
\* DiffLine, no addition and no deletion.
C26_IdenticalTextsNoDiff ==
  (lastOp.name = "computeDiff" /\ lastOp.arg[1] = lastOp.arg[2]) =>
    /\ lastOp.ret.hunks = <<>>
    /\ lastOp.ret.additions = 0
    /\ lastOp.ret.deletions = 0
    /\ ~lastOp.ret.isNewFile

C26_Witness ==
  /\ lastOp.name = "computeDiff"
  /\ lastOp.arg[1] = lastOp.arg[2]
  /\ Len(lastOp.arg[1]) = MaxTextLines
  /\ lastOp.arg[3] = MaxContextLines
  /\ lastOp.ret.hunks = <<>>

(***************************************************************************)
(* The Snapshot Store on its own (specification SpecStore): any caller     *)
(* makes any call on any path, tracked or not.                             *)
(***************************************************************************)
StorePaths == ResolvedPaths \cup {<<"/", "w", "/", "c.ts">>}

InitStore ==
  /\ NewController({[script |-> <<"add">>, contextLines |-> 1]}, {"none"})
  /\ ExtensionIdle

\* A call of the store: the store it leaves and the value it returns.
StoreCalled(name, arg, ret, store) ==
  /\ lastOp' = Op(name, arg, ret)
  /\ snapshots' = store
  /\ UNCHANGED <<origin, diff, highlightFn, inlineLines, inlineOffset, sbsLines,
                 sbsOffset, viewMode, prevOp, highlightCalls>>
  /\ UNCHANGED <<files, preCapture, modalFileList, modalSelectedIndex,
                 modalOpen, currentDoneCallback, viewController, clip, ui, inFlight,
             toolCalls,
                 history>>

StoreTrackFile ==
  \E path \in StorePaths, baseline \in Texts, current \in Texts :
    StoreCalled("trackFile", <<path, baseline, current>>, <<>>,
                trackFile(snapshots, path, baseline, current))

StoreUpdateFile ==
  \E path \in StorePaths, current \in Texts :
    StoreCalled("updateFile", <<path, current>>, foundResult(snapshots, path),
                updateFile(snapshots, path, current))

StoreDismissFile ==
  \E path \in StorePaths :
    StoreCalled("dismissFile", <<path>>, foundResult(snapshots, path),
                dismissFile(snapshots, path))

StoreGetFileDiff ==
  \E path \in StorePaths :
    StoreCalled("getFileDiff", <<path>>, getFileDiff(snapshots, path), snapshots)

NextStore ==
  \/ StoreTrackFile
  \/ StoreUpdateFile
  \/ StoreDismissFile
  \/ StoreGetFileDiff

SpecStore == InitStore /\ [][NextStore]_vars

StoreOps == {"trackFile", "updateFile", "dismissFile", "getFileDiff"}

\* The snapshots of a path in a store.
SnapshotsOf(store, path) ==
  {i \in 1..Len(store) : store[i].path = path}

\* The tracked paths whose baseline differs from their current content.
PendingPaths(store) ==
  {path \in StorePaths :
     \E i \in SnapshotsOf(store, path) :
       store[i].baselineContent # store[i].currentContent}

\* C22: in every state of the store, pendingCount is the length of
\* getChangedFiles(), which lists each tracked path whose baseline differs
\* from its current content exactly once.
C22_PendingCountIsChangedFiles ==
  /\ pendingCount(snapshots) = Len(getChangedFiles(snapshots))
  /\ pendingCount(snapshots) = Cardinality(PendingPaths(snapshots))
  /\ {getChangedFiles(snapshots)[i] : i \in 1..Len(getChangedFiles(snapshots))}
       = PendingPaths(snapshots)

C22_Witness ==
  /\ Len(snapshots) = 3
  /\ pendingCount(snapshots) = 2
  /\ lastOp.name = "dismissFile"
  /\ lastOp.ret # <<>>

\* C23: a call other than dismissFile(p) leaves the baseline of a tracked
\* path p as it was; updateFile(p, c) sets only the current content, and
\* trackFile on a tracked path changes nothing.
C23_BaselineOnlyByDismiss ==
  [][\A path \in StorePaths :
       isTracked(snapshots, path) =>
         /\ isTracked(snapshots', path)
         /\ (lastOp'.name # "dismissFile" \/ lastOp'.arg[1] # path) =>
              \A i \in SnapshotsOf(snapshots, path) :
                snapshots'[i].baselineContent = snapshots[i].baselineContent
         /\ (lastOp'.name = "updateFile" /\ lastOp'.arg[1] = path) =>
              \A i \in SnapshotsOf(snapshots, path) :
                snapshots'[i].currentContent = lastOp'.arg[2]
         /\ (lastOp'.name = "trackFile" /\ lastOp'.arg[1] = path) =>
              snapshots' = snapshots]_vars

C23_Witness ==
  /\ lastOp.name = "updateFile"
  /\ lastOp.ret # <<>>
  /\ \E i \in SnapshotsOf(snapshots, lastOp.arg[1]) :
       /\ snapshots[i].currentContent = lastOp.arg[2]
       /\ snapshots[i].baselineContent # lastOp.arg[2]
       /\ snapshots[i].baselineContent # <<>>

\* C24: getFileDiff, dismissFile and updateFile on an untracked path answer
\* not found and leave the store as it was: no snapshot is created, none is
\* changed, pendingCount stays.
C24_UntrackedCallsAreSafe ==
  [][(lastOp'.name \in {"getFileDiff", "dismissFile", "updateFile"}
        /\ ~isTracked(snapshots, lastOp'.arg[1])) =>
       /\ lastOp'.ret = <<>>
       /\ snapshots' = snapshots
       /\ ~isTracked(snapshots', lastOp'.arg[1])
       /\ pendingCount(snapshots') = pendingCount(snapshots)]_vars

C24_Witness ==
  /\ lastOp.name = "updateFile"
  /\ lastOp.ret = <<>>
  /\ ~isTracked(snapshots, lastOp.arg[1])
  /\ pendingCount(snapshots) = 2

\* The snapshot of a path in a store.
SnapshotIn(store, path) ==
  store[CHOOSE i \in 1..Len(store) : store[i].path = path]

\* Whether a path is among the changed files of a store.
IsPending(store, path) ==
  \E i \in 1..Len(getChangedFiles(store)) : getChangedFiles(store)[i] = path

\* C21: the d key on a selected path p leaves p tracked, with baseline equal
\* to its current content, and out of getChangedFiles; from then on the
\* baseline of p is the content that was dismissed last, p is pending exactly
\* when a later tool_result reported another content, and its diff is the one
\* of the dismissed content and that content.
C21_DismissRebaselines ==
  /\ [][(handleInput("d", Context) /\ selectedFile # <<>>) =>
          /\ isTracked(snapshots', selectedFile[1])
          /\ SnapshotIn(snapshots', selectedFile[1]).baselineContent
               = SnapshotIn(snapshots, selectedFile[1]).currentContent
          /\ SnapshotIn(snapshots', selectedFile[1]).currentContent
               = SnapshotIn(snapshots, selectedFile[1]).currentContent
          /\ ~IsPending(snapshots', selectedFile[1])
          /\ Len(snapshots') = Len(snapshots)]_vars
  /\ [](\A p \in ResolvedPaths :
          history.dismissed[p] =>
            /\ isTracked(snapshots, p)
            /\ SnapshotOf(p).baselineContent = history.rebaseline[p]
            /\ IsPending(snapshots, p) <=> history.lastResult[p] # history.rebaseline[p]
            /\ LET d == computeDiff(history.rebaseline[p], history.lastResult[p],
                                    DiffContextLines)
               IN /\ getFileDiff(snapshots, p)[1].hunks = d.hunks
                  /\ getFileDiff(snapshots, p)[1].additions = d.additions
                  /\ getFileDiff(snapshots, p)[1].deletions = d.deletions)

C21_Witness ==
  \E p \in ResolvedPaths :
    /\ history.dismissed[p]
    /\ IsPending(snapshots, p)
    /\ SnapshotOf(p).baselineContent = history.rebaseline[p]
    /\ history.rebaseline[p] # <<>>
    /\ history.rebaseline[p] # history.firstCall[p]
    /\ SnapshotOf(p).currentContent # <<>>

\* C27: at most one review modal is shown; a press of the shortcut closes
\* the modal that is shown and opens no second one, opens one whenever none
\* is shown and a file is pending, and only notifies whenever none is shown
\* and no file is pending; it does nothing in a session without UI.  "After
\* a close modalOpen is false and the done callback is cleared" is read as:
\* once the shortcut handler that opened the modal has resumed (C39 has that
\* step).
C27_ShortcutTogglesOneModal ==
  /\ [](/\ ui.overlays \in {0, 1}
        /\ ui.overlays = 1 => (modalOpen /\ currentDoneCallback)
        /\ currentDoneCallback => modalOpen
        /\ modalOpen => ui.hasUI)
  /\ []((ui.overlays = 0 /\ ui.hasUI /\ pendingCount(snapshots) > 0) =>
          ENABLED (toggleModal(Context) /\ ui'.overlays = 1 /\ modalOpen'
                     /\ currentDoneCallback'))
  /\ []((ui.overlays = 0 /\ ui.hasUI /\ pendingCount(snapshots) = 0) =>
          ENABLED (toggleModal(Context) /\ ui'.overlays = 0
                     /\ ui'.notice = <<"No file changes to review">>))
  /\ [][toggleModal(Context) =>
          /\ ui.overlays = 1 => ui'.overlays = 0
          /\ ui'.overlays > ui.overlays => pendingCount(snapshots) > 0
          /\ ~ui.hasUI => ui' = ui /\ ~modalOpen']_vars

(***************************************************************************)
(* The status widget on its own (specification SpecWidget):                *)
(* getWidgetLines is called once with a list of changed files.             *)
(***************************************************************************)
MaxWidgetInput == 7

WidgetEntries ==
  {[path |-> <<"a.ts">>, additions |-> 1, deletions |-> 0],
   [path |-> <<"b.ts">>, additions |-> 0, deletions |-> 2]}

InitWidget ==
  InitWithInput({<<changedFiles>> : changedFiles \in SeqsUpTo(WidgetEntries, MaxWidgetInput)})

WidgetGetWidgetLines ==
  PrimCalled("getWidgetLines", getWidgetLines(lastOp.arg[1]))

NextWidget == WidgetGetWidgetLines

SpecWidget == InitWidget /\ [][NextWidget]_vars

\* C28: getWidgetLines of no file is undefined; of n > 0 files it is the
\* header counting all n, one line for each of the first min(n, 5) files in
\* input order, and a last "+(n - 5) more" line exactly when n > 5.
C28_WidgetLines ==
  lastOp.name = "getWidgetLines" =>
    LET changedFiles == lastOp.arg[1]
        n == Len(changedFiles)
        lines == lastOp.ret
    IN /\ n = 0 => lines = <<>>
       /\ n > 0 =>
            /\ Len(lines) = 1 + Min(n, 5) + (IF n > 5 THEN 1 ELSE 0)
            /\ lines[1] = [count |-> n,
                           fileWord |-> IF n = 1 THEN "file" ELSE "files"]
            /\ \A i \in 1..Min(n, 5) :
                 lines[i + 1] = [path |-> changedFiles[i].path,
                                 additions |-> changedFiles[i].additions,
                                 deletions |-> changedFiles[i].deletions]
            /\ n > 5 => lines[Len(lines)] = [more |-> n - 5]
            /\ \A i \in 1..Len(lines) :
                 "more" \in DOMAIN lines[i] <=> (n > 5 /\ i = Len(lines))

C28_Witness ==
  /\ lastOp.name = "getWidgetLines"
  /\ Len(lastOp.arg[1]) = 7
  /\ Len(lastOp.ret) = 7
  /\ lastOp.ret[7] = [more |-> 2]
  /\ lastOp.arg[1][1] # lastOp.arg[1][2]

(***************************************************************************)
(* The clipboard helper on its own (specification SpecClipboard):          *)
(* copyToClipboard is called once; each exec of a command resolves, fails  *)
(* or runs into the timeout.                                               *)
(***************************************************************************)
MaxClipLen == 2

\* The characters of the copied text: a plain one, the quote, the backslash,
\* the newline and U+0001.
ClipChars == {"a", "\"", "\\", "\n", "U+0001"}

ClipTexts == SeqsUpTo(ClipChars, MaxClipLen)

InitClipboard == InitWithInput({<<>>})

ClipUnchanged ==
  UNCHANGED <<origin, diff, highlightFn, inlineLines, inlineOffset, sbsLines,
              sbsOffset, viewMode, lastOp, prevOp, highlightCalls,
              files, preCapture, snapshots, modalFileList, modalSelectedIndex,
              modalOpen, currentDoneCallback, viewController, ui, inFlight,
              toolCalls,
              history>>

ClipCopyToClipboard ==
  /\ clip = ClipIdle
  /\ \E text \in ClipTexts : clip' = SetToBag({clipStarted(text)})
  /\ ClipUnchanged

\* The call is kept when it has returned, with what it resolved to.
ClipExecSettles ==
  /\ \E c \in BagToSet(clip), outcome \in ExecOutcomes :
       /\ c.pc = "exec"
       /\ clip' = SetToBag({afterExec(c, outcome)})
  /\ ClipUnchanged

NextClipboard == ClipCopyToClipboard \/ ClipExecSettles

SpecClipboard == InitClipboard /\ [][NextClipboard]_vars

ClipOrder == <<"xclip", "xsel", "pbcopy">>

\* C29: copyToClipboard never rejects; it runs xclip, xsel, pbcopy in that
\* order, each only after the ones before it failed; it resolves to true at
\* the first command that succeeds and to false exactly when all three
\* failed.
C29_ClipboardFallback ==
  \A c \in BagToSet(clip) :
    /\ c.pc \in {"exec", "resolved"}
    /\ Len(c.ran) <= 3
    /\ \A i \in 1..Len(c.ran) :
         /\ c.ran[i].cmd = ClipOrder[i]
         /\ i < Len(c.ran) => c.ran[i].outcome # "ok"
    /\ c.pc = "exec" =>
         /\ c.result = <<>>
         /\ Len(c.ran) < 3
         /\ \A i \in 1..Len(c.ran) : c.ran[i].outcome # "ok"
    /\ c.pc = "resolved" =>
         /\ c.result \in {<<TRUE>>, <<FALSE>>}
         /\ Len(c.ran) >= 1
         /\ c.result = <<TRUE>> <=> c.ran[Len(c.ran)].outcome = "ok"
         /\ c.result = <<FALSE>> <=>
              /\ Len(c.ran) = 3
              /\ \A i \in 1..3 : c.ran[i].outcome # "ok"

C29_Witness ==
  \E c \in BagToSet(clip) :
    /\ c.pc = "resolved"
    /\ c.result = <<TRUE>>
    /\ Len(c.ran) = 2
    /\ c.ran[1].outcome = "timeout"
    /\ c.ran[2].cmd = "xsel"
    /\ c.text = <<"a", "\"">>

(***************************************************************************)
(* Gap detection of the inline renderer (specification SpecGaps): the      *)
(* renderers are built for every diff of an edit script of up to           *)
(* MaxScriptLen lines, for a diff whose new numbers jump from 2 to 10 and   *)
(* for a diff whose old numbers reach 10 while its new numbers stay at 1.  *)
(***************************************************************************)
\* Two added lines, new numbers 2 and 10, the unchanged lines between them
\* left out.
JumpOrigin ==
  [script |-> <<"keep", "add", "keep", "keep", "keep", "keep", "keep", "keep",
                "keep", "add">>,
   contextLines |-> 0]

\* Nine removed lines and the unchanged line after them: old number 10, new
\* number 1.
DriftOrigin ==
  [script |-> <<"rem", "rem", "rem", "rem", "rem", "rem", "rem", "rem", "rem",
                "keep">>,
   contextLines |-> 1]

GapOrigins == {JumpOrigin, DriftOrigin}

InitGaps == InitFrom(AllOrigins \cup GapOrigins, {"none"})

GapSetDiff == \E o \in CtlOrigins \cup GapOrigins : setDiff(o)

GapRender == render(MinSideBySideWidth, FullHeight)

NextGaps == GapSetDiff \/ GapRender

SpecGaps == InitGaps /\ [][NextGaps]_vars

\* The number the claim tracks for a DiffLine.
TrackedNumber(hunk) ==
  IF "newLineNumber" \in DOMAIN hunk THEN hunk.newLineNumber ELSE hunk.oldLineNumber

\* C30: in the inline buffer a separator row stands before a DiffLine exactly
\* when its tracked number (the new number, else the old one) is more than 1
\* above the tracked number of the DiffLine before it; the jump from 2 to 10
\* gives exactly one separator, and tracked numbers that never rise by more
\* than 1 give none.
C30_InlineGapByTrackedNumber ==
  LET flags == InlineSepFlags(inlineLines, 1, FALSE)
  IN /\ Len(flags) = Len(diff.hunks)
     /\ Len(inlineLines) = Len(flags) + CountTrue(flags)
     /\ \A k \in 1..Len(flags) :
          flags[k] <=>
            /\ k > 1
            /\ TrackedNumber(diff.hunks[k]) > TrackedNumber(diff.hunks[k - 1]) + 1
     /\ origin = JumpOrigin => CountTrue(flags) = 1 /\ Len(inlineLines) = 3
     /\ (\A k \in 2..Len(diff.hunks) :
           TrackedNumber(diff.hunks[k]) <= TrackedNumber(diff.hunks[k - 1]) + 1)
          => Len(inlineLines) = Len(diff.hunks)

C30_Witness ==
  /\ origin = JumpOrigin
  /\ lastOp.name = "setDiff"
  /\ Len(diff.hunks) = 2
  /\ diff.hunks[1].newLineNumber = 2
  /\ diff.hunks[2].newLineNumber = 10
  /\ Len(inlineLines) = 3
  /\ IsInlineSeparator(inlineLines[2])

\* The largest number of a set of line numbers, 0 for none.
SetMax(numbers) ==
  IF numbers = {} THEN 0 ELSE CHOOSE n \in numbers : \A m \in numbers : m <= n

\* Every old and every new line number that occurs in the diff.
AllLineNumbers(hunks) ==
  {hunks[k].oldLineNumber : k \in {j \in 1..Len(hunks) : "oldLineNumber" \in DOMAIN hunks[j]}}
    \cup {hunks[k].newLineNumber : k \in {j \in 1..Len(hunks) : "newLineNumber" \in DOMAIN hunks[j]}}

\* The numbers the inline view shows: the new number, else the old one.
ShownLineNumbers(hunks) == {ShownNumber(hunks[k]) : k \in 1..Len(hunks)}

\* Every DiffLine row of the inline buffer has a number column w wide: the
\* column, a space, the marker, a space and the content.
InlineColumnWidthIs(w) ==
  \A i \in 1..Len(inlineLines) :
    ~IsInlineSeparator(inlineLines[i]) =>
      /\ Len(inlineLines[i].rawContent) = w + 3 + Len(InlineHunkOfLine(i).content)
      /\ SubSeq(inlineLines[i].rawContent, 1, w)
           = padStart(toString(ShownNumber(InlineHunkOfLine(i))), w)

\* C31 as stated: the inline number column is as wide as the decimal digits
\* of the maximum over all old and all new line numbers of the diff.
C31_WidthOfAllNumbers ==
  InlineColumnWidthIs(Len(toString(SetMax(AllLineNumbers(diff.hunks)))))

\* C31 as amended: the inline number column is as wide as the decimal digits
\* of the maximum over the numbers the view shows, each DiffLine's new number
\* or, when it has none, its old number; the old number of a context line
\* does not count.
C31_WidthOfShownNumbers ==
  InlineColumnWidthIs(Len(toString(SetMax(ShownLineNumbers(diff.hunks)))))

C31_Witness ==
  /\ origin = DriftOrigin
  /\ lastOp.name = "setDiff"
  /\ Len(inlineLines) = 10
  /\ diff.hunks[10].oldLineNumber = 10
  /\ inlineLines[10].rawContent = <<"1", SPACE, SPACE, SPACE, "k">>
  /\ inlineLines[9].rawContent = <<"9", SPACE, "-", SPACE, "r">>

(***************************************************************************)
(* Mode requests that change nothing (specification Spec).                 *)
(***************************************************************************)
\* C32: toggleViewMode(w) with w < 120 in inline mode returns false and
\* leaves the mode, both scroll offsets and both line buffers as they were;
\* setViewMode(m) with m the current mode leaves the mode and the scroll
\* offsets as they were.
C32_ModeRequestWithoutChange ==
  /\ [][(lastOp'.name = "toggleViewMode" /\ viewMode = "inline" /\ lastOp'.arg[1] < 120) =>
          /\ lastOp'.ret = FALSE
          /\ UNCHANGED <<viewMode, inlineOffset, sbsOffset, inlineLines, sbsLines>>]_vars
  /\ [][(lastOp'.name = "setViewMode" /\ lastOp'.arg[1] = viewMode) =>
          UNCHANGED <<viewMode, inlineOffset, sbsOffset>>]_vars

C32_Witness ==
  /\ lastOp.name = "setViewMode"
  /\ lastOp.arg = <<"inline">>
  /\ prevOp.name = "toggleViewMode"
  /\ prevOp.arg = <<119>>
  /\ viewMode = "inline"
  /\ inlineOffset > 0

(***************************************************************************)
(* The view controller of the open modal (specification SpecExtension).    *)
(***************************************************************************)
\* C33: while the review modal is shown, its view controller holds the diff
\* of the current snapshot of the file the modal's selection names, also
\* after a tool_result changed that file; a render never shows a diff
\* computed before that edit.
C33_ViewControllerHasCurrentDiff ==
  (ui.overlays > 0 /\ Len(modalFileList) > 0) =>
    overlayShownDiff = getSelectedDiff(snapshots, modalFileList, modalSelectedIndex)

(***************************************************************************)
(* DiffReviewModal on its own (specification SpecModal): the modal's       *)
(* operations in any order, with changes of the store in between that the  *)
(* modal is not told about.                                                *)
(***************************************************************************)
MaxSelectIndex == 3

\* The indices selectIndex is called with: negative ones, valid ones and ones
\* past the end.
SelectIndices == (0 - 2)..MaxSelectIndex

InitModal ==
  /\ NewController({[script |-> <<"add">>, contextLines |-> 1]}, {"none"})
  /\ ExtensionIdle

\* A call on the modal or the store returned.
ModalCalled(name, arg, ret) ==
  /\ lastOp' = Op(name, arg, ret)
  /\ UNCHANGED <<origin, diff, highlightFn, inlineLines, inlineOffset, sbsLines,
                 sbsOffset, viewMode, prevOp, highlightCalls>>
  /\ UNCHANGED <<files, preCapture, modalOpen, currentDoneCallback,
                 viewController, clip, ui, inFlight, toolCalls, history>>

ModalRefresh ==
  /\ refresh(snapshots)
  /\ UNCHANGED snapshots
  /\ ModalCalled("refresh", <<>>, <<>>)

ModalSelectNext ==
  /\ selectNext
  /\ UNCHANGED <<snapshots, modalFileList>>
  /\ ModalCalled("selectNext", <<>>, <<>>)

ModalSelectPrevious ==
  /\ selectPrevious
  /\ UNCHANGED <<snapshots, modalFileList>>
  /\ ModalCalled("selectPrevious", <<>>, <<>>)

ModalSelectIndex ==
  \E index \in SelectIndices :
    /\ selectIndex(index)
    /\ UNCHANGED <<snapshots, modalFileList>>
    /\ ModalCalled("selectIndex", <<index>>, <<>>)

ModalDismissSelected ==
  /\ dismissSelected
  /\ ModalCalled("dismissSelected", <<>>, ~noSelectedPath)

\* The store changes behind the modal's back: a file is tracked, edited or
\* dismissed by someone else.
ModalStoreChanges ==
  /\ \E path \in StorePaths :
       \/ snapshots' = trackFile(snapshots, path, <<>>, <<"x">>)
       \/ \E current \in {<<>>, <<"x">>} : snapshots' = updateFile(snapshots, path, current)
       \/ snapshots' = dismissFile(snapshots, path)
  /\ UNCHANGED <<modalFileList, modalSelectedIndex>>
  /\ ModalCalled("store", <<>>, <<>>)

NextModal ==
  \/ ModalRefresh
  \/ ModalSelectNext
  \/ ModalSelectPrevious
  \/ ModalSelectIndex
  \/ ModalDismissSelected
  \/ ModalStoreChanges

SpecModal == InitModal /\ [][NextModal]_vars

\* C34: the selected index is 0 when the modal's file list is empty and a
\* valid index of the list otherwise, so that selectedFile is defined
\* whenever the list is not empty.
C34_SelectedIndexInRange ==
  /\ Len(modalFileList) = 0 => modalSelectedIndex = 0
  /\ Len(modalFileList) > 0 =>
       /\ 0 <= modalSelectedIndex
       /\ modalSelectedIndex < Len(modalFileList)
       /\ selectedFile = <<modalFileList[modalSelectedIndex + 1].path>>

C34_Witness ==
  /\ lastOp.name = "selectIndex"
  /\ lastOp.arg = <<3>>
  /\ Len(modalFileList) = 2
  /\ modalSelectedIndex = 1
  /\ pendingCount(snapshots) = 0

RECURSIVE selectNextTimes(_, _, _)
\* The index after selectNext was called n times in a row.
selectNextTimes(fileList, selectedIndex, n) ==
  IF n = 0 THEN selectedIndex
  ELSE selectNextTimes(fileList, selectNextIndex(fileList, selectedIndex), n - 1)

\* C35: on a non-empty list selectNext goes from the last index to 0 and
\* selectPrevious from 0 to the last index; from every state the modal
\* reaches, selectNext then selectPrevious, selectPrevious then selectNext,
\* and as many selectNext as the list is long lead back to the same index;
\* on an empty list neither changes anything.
C35_SelectionWrapsAndReverses ==
  /\ [][ModalSelectNext =>
          /\ Len(modalFileList) = 0 => UNCHANGED <<modalFileList, modalSelectedIndex>>
          /\ Len(modalFileList) > 0 =>
               modalSelectedIndex' =
                 IF modalSelectedIndex = Len(modalFileList) - 1 THEN 0
                 ELSE modalSelectedIndex + 1]_vars
  /\ [][ModalSelectPrevious =>
          /\ Len(modalFileList) = 0 => UNCHANGED <<modalFileList, modalSelectedIndex>>
          /\ Len(modalFileList) > 0 =>
               modalSelectedIndex' =
                 IF modalSelectedIndex = 0 THEN Len(modalFileList) - 1
                 ELSE modalSelectedIndex - 1]_vars
  /\ [](/\ selectPreviousIndex(modalFileList,
                               selectNextIndex(modalFileList, modalSelectedIndex))
             = modalSelectedIndex
        /\ selectNextIndex(modalFileList,
                           selectPreviousIndex(modalFileList, modalSelectedIndex))
             = modalSelectedIndex
        /\ selectNextTimes(modalFileList, modalSelectedIndex, Len(modalFileList))
             = modalSelectedIndex)

C35_Witness ==
  /\ lastOp.name = "selectNext"
  /\ Len(modalFileList) = 3
  /\ modalSelectedIndex = 0
  /\ selectPreviousIndex(modalFileList, modalSelectedIndex) = 2

\* The paths of a file list.
ListPaths(fileList) == {fileList[i].path : i \in 1..Len(fileList)}

\* C36: dismissSelected on an empty list returns false and changes neither
\* the modal nor the store; on a non-empty list it returns true, sets the
\* baseline of the selected path to its current content and leaves every
\* other snapshot as it was, the refreshed list does not hold the dismissed
\* path, and the index stays where it was unless it is past the end of the
\* refreshed list, where it moves to the last entry (0 on an empty list).
C36_DismissSelected ==
  [][ModalDismissSelected =>
       /\ Len(modalFileList) = 0 =>
            /\ lastOp'.ret = FALSE
            /\ UNCHANGED <<modalFileList, modalSelectedIndex, snapshots>>
       /\ Len(modalFileList) > 0 =>
            LET path == modalFileList[modalSelectedIndex + 1].path
            IN /\ lastOp'.ret = TRUE
               /\ Len(snapshots') = Len(snapshots)
               /\ \A i \in 1..Len(snapshots) :
                    IF snapshots[i].path = path
                    THEN snapshots'[i] = [snapshots[i] EXCEPT
                                            !.baselineContent = snapshots[i].currentContent]
                    ELSE snapshots'[i] = snapshots[i]
               /\ isTracked(snapshots, path)
               /\ path \notin ListPaths(modalFileList')
               /\ modalFileList' = refreshFileList(snapshots')
               /\ modalSelectedIndex' =
                    IF Len(modalFileList') = 0 THEN 0
                    ELSE IF modalSelectedIndex >= Len(modalFileList')
                    THEN Len(modalFileList') - 1
                    ELSE modalSelectedIndex]_vars

C36_Witness ==
  /\ lastOp.name = "dismissSelected"
  /\ lastOp.ret = TRUE
  /\ Len(modalFileList) = 2
  /\ modalSelectedIndex = 1
  /\ Len(snapshots) = 3
  /\ pendingCount(snapshots) = 2

(***************************************************************************)
(* The modal's file list in the extension (specification SpecExtension).   *)
(***************************************************************************)
\* C37: in every state between two handlers, so after every tool_result
\* handler run and every dismiss key, the modal's file list holds the paths
\* of getChangedFiles() in the same order, each with the additions,
\* deletions and isNewFile of the diff of its current snapshot.
C37_FileListIsCurrent ==
  LET changed == getChangedFiles(snapshots)
  IN /\ Len(modalFileList) = Len(changed)
     /\ \A i \in 1..Len(changed) :
          LET snap == SnapshotIn(snapshots, changed[i])
              d == computeDiff(snap.baselineContent, snap.currentContent, DiffContextLines)
          IN /\ modalFileList[i].path = changed[i]
             /\ modalFileList[i].additions = d.additions
             /\ modalFileList[i].deletions = d.deletions
             /\ modalFileList[i].isNewFile = d.isNewFile

C37_Witness ==
  /\ modalOpen
  /\ Len(modalFileList) = 1
  /\ Len(snapshots) = 2
  /\ modalFileList[1].path = <<"/", "w", "/", "b.ts">>
  /\ history.dismissed[<<"/", "w", "/", "a.ts">>]
  /\ history.results[<<"/", "w", "/", "b.ts">>] > 0

(***************************************************************************)
(* preCapture and the store (specification SpecExtension).                 *)
(***************************************************************************)
\* The events in flight that name the given path.
InFlightFor(path) ==
  {event \in BagToSet(inFlight) :
     Handled(event) /\ resolvePath(event.input.path, Cwd) = path}

\* C38: no path is tracked by the store and in the preCapture map at the
\* same time; an entry of preCapture appears only for an untracked path and
\* disappears only, and always, in the step that first tracks the path; an
\* event of another tool than write and edit, or without a path, changes
\* neither the store nor preCapture.
C38_PreCaptureOnlyForUntracked ==
  /\ [](\A p \in ResolvedPaths : ~(isTracked(snapshots, p) /\ MapHas(preCapture, p)))
  /\ [][\A p \in ResolvedPaths :
          /\ (~MapHas(preCapture, p) /\ MapHas(preCapture', p)) =>
               (~isTracked(snapshots, p) /\ ~isTracked(snapshots', p))
          /\ (MapHas(preCapture, p) /\ ~MapHas(preCapture', p)) =>
               (~isTracked(snapshots, p) /\ isTracked(snapshots', p))
          /\ (~isTracked(snapshots, p) /\ isTracked(snapshots', p)) =>
               ~MapHas(preCapture', p)]_vars
  /\ [][\A event \in ToolEvents :
          (/\ ~Handled(event)
           /\ \/ inFlight' = inFlight (+) SetToBag({event})
              \/ BagIn(event, inFlight) /\ inFlight' = inFlight (-) SetToBag({event}))
            => UNCHANGED <<snapshots, preCapture>>]_vars

C38_Witness ==
  /\ Cardinality(InFlightFor(<<"/", "w", "/", "a.ts">>)) = 2
  /\ \E event \in InFlightFor(<<"/", "w", "/", "a.ts">>) :
       event.input.path = <<".", "/", "/", "b", "/", "..", "/", "a.ts">>
  /\ MapHas(preCapture, <<"/", "w", "/", "a.ts">>)
  /\ ~isTracked(snapshots, <<"/", "w", "/", "a.ts">>)

(***************************************************************************)
(* The dismiss key in the open modal (specification SpecExtension).        *)
(***************************************************************************)
\* C39: a dismiss key that leaves the modal's file list empty calls done in
\* the same step (the overlay and its view controller are gone when the step
\* is over), and whenever the overlay is gone while modalOpen is still set,
\* modalOpen is false eventually; a dismiss key that leaves files in the list
\* leaves the modal open, with a new view controller built on the current
\* diff of the file now selected.
C39_DismissLastClosesModal ==
  /\ [][handleInput("d", Context) =>
          IF Len(modalFileList') = 0
          THEN /\ ui'.overlays = ui.overlays - 1
               /\ viewController' = <<>>
          ELSE /\ modalOpen' /\ modalOpen
               /\ currentDoneCallback'
               /\ ui'.overlays = ui.overlays
               /\ viewController' # <<>>
               /\ viewController'[1].diff.filePath =
                    modalFileList'[modalSelectedIndex' + 1].path
               /\ <<viewController'[1].diff>> =
                    getFileDiff(snapshots', modalFileList'[modalSelectedIndex' + 1].path)
               /\ viewController'[1].viewMode = "inline"
               /\ viewController'[1].inlineOffset = 0
               /\ viewController'[1].sbsOffset = 0]_vars
  /\ (modalOpen /\ ui.overlays = 0) ~> ~modalOpen

\* The dismiss key was handled with files left (a.ts first) and then on the
\* last file: the overlay is gone and the shortcut handler has not resumed.
C39_Witness ==
  /\ modalOpen
  /\ currentDoneCallback
  /\ ui.overlays = 0
  /\ viewController = <<>>
  /\ Len(modalFileList) = 0
  /\ pendingCount(snapshots) = 0
  /\ \A p \in ResolvedPaths : history.dismissed[p]

====
